---- MODULE Spec2Model ----
(***************************************************************************)
(* FG-Forge-Updater: the login state machine (ForgeItem.login and          *)
(* ForgeCredentials.get_csrf_token), the upload-then-publish workflow      *)
(* (ForgeItem.upload_and_publish), the orchestrator (main), and single     *)
(* calls of resolve_file_paths, get_bool_env, replace_images_with_link,    *)
(* apply_styles_to_table and get_readme.                                   *)
(*                                                                         *)
(* Text is modelled as a sequence of pieces (TLA+ strings); concatenation  *)
(* is \o.  An optional Python value is <<>> (None) or <<v>>.               *)
(***************************************************************************)
EXTENDS Integers, Sequences, FiniteSets, TLC

VARIABLES
    mode,        \* which operation this behaviour runs: "login", "publish", "main", ...
    log,         \* logger.info lines emitted so far, in order
    \* ---- ForgeItem.login / ForgeCredentials.get_csrf_token
    pc,          \* position inside login
    creds,       \* self.creds: [username, password]
    site,        \* call site of the running get_csrf_token: "cred", "already", "none"
    ev,          \* browser operations performed so far, in order
    cookies,     \* the list context.cookies() returned last
    csrfPage,    \* what the CSRF page served to the running/last get_csrf_token call
    csrfRet,     \* outcome of the last completed get_csrf_token call
    pagesOpened, \* context.new_page() calls made by get_csrf_token
    pagesClosed, \* page.close() calls made by get_csrf_token
    result,      \* outcome of login: pending, return (headers) or raise (exc)
    \* ---- ForgeItem.upload_and_publish
    ppc,         \* position inside upload_and_publish
    headers,     \* the headers argument
    new_files,   \* the new_files argument: a list of file names
    channel,     \* the channel argument: "LIVE", "TEST" or "NONE"
    requests,    \* HTTP requests issued so far, in order
    responses,   \* what the marketplace answered to each request, in order
    builds,      \* the builds listing get_item_builds returned
    pubResult,   \* outcome of upload_and_publish
    \* ---- main
    mpc,         \* position inside main
    env,         \* os.environ: variable name -> None (unset) or its text
    calls,       \* calls made by main (and by update_description), in order
    ctxClosed,   \* context.close() calls
    browserClosed, \* browser.close() calls
    pendingExc,  \* the exception in flight while the finally block runs
    mainResult,  \* outcome of main
    \* ---- one call of a function of main.py, file_handling.py or build_processing.py
    fn,          \* the function that was called, "none" before the call
    input,       \* what the call reads: its arguments and the files it looks at
    fnOut,       \* outcome of the call
    step,        \* position inside update_description / replace_description
    itemPage     \* the item's page: the editor's content and the saved description

loginVars == <<pc, creds, site, ev, cookies, csrfPage, csrfRet,
               pagesOpened, pagesClosed, result>>

pubVars == <<ppc, headers, new_files, channel, requests, responses, builds, pubResult>>

mainVars == <<mpc, env, calls, ctxClosed, browserClosed, pendingExc, mainResult>>

fnVars == <<fn, input, fnOut, step, itemPage>>

vars == <<mode, log, loginVars, pubVars, mainVars, fnVars>>

------------------------------------------------------------------------------
(* Bounds of the model *)

MaxCookies == 2
MaxBuilds == 3
MaxFiles == 2

------------------------------------------------------------------------------
(* Python values *)

None == <<>>
Some(v) == <<v>>

\* str(x) for an optional text: str(None) is the text "None"
PyStr(opt) == IF opt = None THEN <<"None">> ELSE opt[1]

\* "sep".join(parts), parts a list of texts
RECURSIVE Join(_, _)
Join(sep, parts) ==
    IF parts = <<>> THEN <<>>
    ELSE IF Len(parts) = 1 THEN Head(parts)
    ELSE Head(parts) \o <<sep>> \o Join(sep, Tail(parts))

\* all sequences over S of length at most n
SeqUpTo(S, n) == UNION {[1..k -> S] : k \in 0..n}

HTTP_OK == 200

------------------------------------------------------------------------------
(* Exceptions *)

ForgeLoginException(username) ==
    [type |-> "ForgeLoginException",
     msg  |-> <<"Attempted login as ", username, " was unsuccessful">>]

PlaywrightTimeoutError(text) ==
    [type |-> "PlaywrightTimeoutError", msg |-> <<text>>]

\* any other error of the browser driver (navigation failure, closed target)
PlaywrightError(text) ==
    [type |-> "Error", msg |-> <<text>>]

\* a handler that catches every exception
CaughtByAnyHandler(exc) == TRUE

\* `except PlaywrightTimeoutError`: ForgeLoginException derives from
\* BaseException and the driver's other errors are not timeouts
CaughtByTimeoutHandler(exc) == exc.type = "PlaywrightTimeoutError"

------------------------------------------------------------------------------
(* Inputs: the credentials of the run and what the marketplace serves *)

Usernames == {"alice", "bob"}
Passwords == {"pw1", "pw2"}

CookieJar == [name : {"sid", "xsrf"}, value : {"a", "b"}]
CookieLists == SeqUpTo(CookieJar, MaxCookies)

\* content attribute of the csrf-token element: missing, empty or a token
ContentAttrs == {None, Some(<<>>), Some(<<"tok1">>), Some(<<"tok2">>)}

\* the parsed CSRF page: whether an element with name="csrf-token" exists,
\* and its content attribute
Htmls == {[meta |-> FALSE, content |-> None]}
         \cup {[meta |-> TRUE, content |-> c] : c \in ContentAttrs}

Statuses == {200, 204, 404}

\* page.goto(urls.MANAGE_CRAFT): raises, or returns None or a response
Navigations == {[nav |-> "timeout", resp |-> None], [nav |-> "error", resp |-> None],
                [nav |-> "ok", resp |-> None]}
               \cup {[nav |-> "ok", resp |-> Some(s)] : s \in Statuses}

NoPage == [nav |-> "none", resp |-> None, read |-> "none",
           html |-> [meta |-> FALSE, content |-> None]]

------------------------------------------------------------------------------
(* Outcomes *)

Pending == [kind |-> "pending"]
Returned(v) == [kind |-> "return", value |-> v]
Raised(exc) == [kind |-> "raise", exc |-> exc]

E(op, arg, out) == [op |-> op, arg |-> arg, out |-> out, text |-> ""]
Typed(arg, out, text) == [op |-> "fill", arg |-> arg, out |-> out, text |-> text]

Did(op, arg, out) == \E i \in DOMAIN ev : ev[i].op = op /\ ev[i].arg = arg /\ ev[i].out = out
Count(op, arg) == Cardinality({i \in DOMAIN ev : ev[i].op = op /\ ev[i].arg = arg})

------------------------------------------------------------------------------
(* ForgeItem.login: the header set *)

Version == "0.0.0"

UserAgent == <<"Mozilla/5.0 (compatible; FG-Forge-Updater/", Version,
               "; +https://github.com/bmos/FG-Forge-Updater)">>

\* "; ".join([f"{c['name']}={c['value']}" for c in cookies])
CookieHeader(cs) == Join("; ", [i \in DOMAIN cs |-> <<cs[i].name, "=", cs[i].value>>])

AuthHeaders(cs, csrf_token) ==
    ("Cookie" :> CookieHeader(cs)) @@ ("X-CSRF-TOKEN" :> csrf_token)
    @@ ("User-Agent" :> UserAgent)

NoFieldMsg == "No username or password field found, or login button is not clickable."

\* login without the check of the items table: every timeout of the outer
\* handler counts as "already logged in"
LoginOnRaise_AssumeLoggedIn(region, exc) ==
    IF region # "outside" /\ CaughtByTimeoutHandler(exc)
    THEN CASE region = "inner_try" -> [pc |-> "logged_in", result |-> Pending]
           [] region \in {"try", "inner_handler"} ->
                  [pc |-> "wait_items", result |-> Pending]
           [] OTHER -> [pc |-> "logged_in", result |-> Pending]
    ELSE [pc |-> "done", result |-> Raised(exc)]

\* login without the inner try: a timeout of the failure indicator is handled
\* by the outer handler
LoginOnRaise_NoInnerTry(region, exc) ==
    IF region # "outside" /\ CaughtByTimeoutHandler(exc)
    THEN CASE region \in {"try", "inner_try", "inner_handler"} ->
                  [pc |-> "wait_items", result |-> Pending]
           [] OTHER ->
                  [pc |-> "done", result |-> Raised(PlaywrightTimeoutError(NoFieldMsg))]
    ELSE [pc |-> "done", result |-> Raised(exc)]

\* Where control goes when exc is raised in a region of login:
\*   outside        line 106, before the try
\*   try            lines 109-118
\*   inner_try      lines 121-122
\*   inner_handler  lines 124-135 (inside the outer try)
\*   outer_handler  lines 139-151 (the try inside the outer except)
LoginOnRaise(region, exc) ==
    IF region # "outside" /\ CaughtByTimeoutHandler(exc)
    THEN CASE region = "inner_try" -> [pc |-> "logged_in", result |-> Pending]
           [] region \in {"try", "inner_handler"} ->
                  [pc |-> "wait_items", result |-> Pending]
           [] OTHER ->
                  [pc |-> "done", result |-> Raised(PlaywrightTimeoutError(NoFieldMsg))]
    ELSE [pc |-> "done", result |-> Raised(exc)]

Timeout == PlaywrightTimeoutError("Timeout exceeded.")

\* one step of login at position `at` that either succeeds, moving to `next`,
\* or raises a timeout in `region`
LoginStep(at, op, arg, okOut, next, region) ==
    /\ mode = "login" /\ pc = at
    /\ \E out \in {okOut, "timeout"} :
         /\ ev' = Append(ev, E(op, arg, out))
         /\ IF out = "timeout"
            THEN /\ pc' = LoginOnRaise(region, Timeout).pc
                 /\ result' = LoginOnRaise(region, Timeout).result
            ELSE pc' = next /\ result' = result
    /\ UNCHANGED <<fnVars, mainVars, pubVars, mode, creds, site, log, cookies, csrfPage, csrfRet,
                   pagesOpened, pagesClosed>>

\* line 106
GotoLogin ==
    /\ mode = "login" /\ pc = "start"
    /\ \E out \in {"ok", "timeout", "error"} :
         /\ ev' = Append(ev, E("goto", "login", out))
         /\ IF out = "ok" THEN pc' = "wait_user" /\ result' = result
            ELSE LET exc == IF out = "timeout" THEN Timeout
                            ELSE PlaywrightError("net::ERR_FAILED")
                 IN /\ pc' = LoginOnRaise("outside", exc).pc
                    /\ result' = LoginOnRaise("outside", exc).result
    /\ UNCHANGED <<fnVars, mainVars, pubVars, mode, creds, site, log, cookies, csrfPage, csrfRet,
                   pagesOpened, pagesClosed>>

\* line 109
WaitUsername == LoginStep("wait_user", "wait", "username", "found", "wait_pass", "try")

\* line 110
WaitPassword == LoginStep("wait_pass", "wait", "password", "found", "fill_user", "try")

\* line 113
FillUsername ==
    /\ mode = "login" /\ pc = "fill_user"
    /\ \E out \in {"ok", "timeout"} :
         /\ ev' = Append(ev, Typed("username", out, creds.username))
         /\ IF out = "timeout"
            THEN /\ pc' = LoginOnRaise("try", Timeout).pc
                 /\ result' = LoginOnRaise("try", Timeout).result
            ELSE pc' = "fill_pass" /\ result' = result
    /\ UNCHANGED <<fnVars, mainVars, pubVars, mode, creds, site, log, cookies, csrfPage, csrfRet,
                   pagesOpened, pagesClosed>>

\* line 114
FillPassword ==
    /\ mode = "login" /\ pc = "fill_pass"
    /\ \E out \in {"ok", "timeout"} :
         /\ ev' = Append(ev, Typed("password", out, creds.password))
         /\ IF out = "timeout"
            THEN /\ pc' = LoginOnRaise("try", Timeout).pc
                 /\ result' = LoginOnRaise("try", Timeout).result
            ELSE pc' = "wait_button" /\ result' = result
    /\ UNCHANGED <<fnVars, mainVars, pubVars, mode, creds, site, log, cookies, csrfPage, csrfRet,
                   pagesOpened, pagesClosed>>

\* line 116
WaitLoginButton == LoginStep("wait_button", "wait", "login_button", "found", "click", "try")

\* line 117
ClickLogin == LoginStep("click", "click", "login_button", "ok", "wait_fail", "try")

\* lines 120-123: the failure indicator; finding it raises ForgeLoginException
WaitFailure ==
    /\ mode = "login" /\ pc = "wait_fail"
    /\ \E out \in {"found", "timeout"} :
         LET exc == IF out = "found" THEN ForgeLoginException(creds.username) ELSE Timeout
         IN /\ ev' = Append(ev, E("wait", "failure", out))
            /\ pc' = LoginOnRaise("inner_try", exc).pc
            /\ result' = LoginOnRaise("inner_try", exc).result
    /\ UNCHANGED <<fnVars, mainVars, pubVars, mode, creds, site, log, cookies, csrfPage, csrfRet,
                   pagesOpened, pagesClosed>>

\* lines 124-129: the inner handler up to the call of get_csrf_token;

\* line 125 with the whole credentials written out
LoggedInLine_WithPassword(c) == <<"Logged in as ", c.username, ":", c.password>>

\* line 125: logger.info("Logged in as %s", self.creds.username)
LoggedInLine(c) == <<"Logged in as ", c.username>>

\* context.cookies() reads the live context and returns a list
LoggedIn ==
    /\ mode = "login" /\ pc = "logged_in"
    /\ log' = Append(log, LoggedInLine(creds))
    /\ \E cs \in CookieLists : cookies' = cs
    /\ ev' = Append(ev, E("cookies", "context", "ok"))
    /\ site' = "cred"
    /\ pc' = "csrf_new_page"
    /\ UNCHANGED <<fnVars, mainVars, pubVars, mode, creds, csrfPage, csrfRet, pagesOpened, pagesClosed, result>>

\* lines 138-145 and 152-154: the outer handler up to the call of get_csrf_token
WaitItemsTable ==
    /\ mode = "login" /\ pc = "wait_items"
    /\ \E out \in {"found", "timeout"} :
         /\ IF out = "timeout"
            THEN /\ ev' = Append(ev, E("wait", "items_table", out))
                 /\ pc' = LoginOnRaise("outer_handler", Timeout).pc
                 /\ result' = LoginOnRaise("outer_handler", Timeout).result
                 /\ UNCHANGED <<log, cookies, site>>
            ELSE /\ ev' = ev \o <<E("wait", "items_table", out), E("cookies", "context", "ok")>>
                 /\ log' = Append(log, <<"Already logged in">>)
                 /\ \E cs \in CookieLists : cookies' = cs
                 /\ site' = "already"
                 /\ pc' = "csrf_new_page"
                 /\ result' = result
    /\ UNCHANGED <<fnVars, mainVars, pubVars, mode, creds, csrfPage, csrfRet, pagesOpened, pagesClosed>>

------------------------------------------------------------------------------
(* ForgeCredentials.get_csrf_token *)

\* line 80: `not response or response.status != HTTP_OK` is the failure test
CsrfResponseOk(resp) == resp # None /\ resp[1] = HTTP_OK

\* lines 88-93: find the element named csrf-token and return str(content)
CsrfParse(html) ==
    IF ~html.meta
    THEN Raised(ForgeLoginException("CSRF token html element not found or invalid"))
    ELSE Returned(PyStr(html.content))

\* the region of login a call of get_csrf_token sits in
CsrfRegion(s) == IF s = "cred" THEN "inner_handler" ELSE "outer_handler"

\* get_csrf_token ends with `outcome`: login continues or handles the exception
CsrfEnds(outcome) ==
    /\ csrfRet' = outcome
    /\ IF outcome.kind = "return"
       THEN pc' = "login_return" /\ result' = result
       ELSE /\ pc' = LoginOnRaise(CsrfRegion(site), outcome.exc).pc
            /\ result' = LoginOnRaise(CsrfRegion(site), outcome.exc).result

\* line 77
CsrfNewPage ==
    /\ mode = "login" /\ pc = "csrf_new_page"
    /\ pagesOpened' = pagesOpened + 1
    /\ csrfPage' = NoPage
    /\ csrfRet' = Pending
    /\ ev' = Append(ev, E("csrf", "new_page", "ok"))
    /\ pc' = "csrf_goto"
    /\ UNCHANGED <<fnVars, mainVars, pubVars, mode, creds, site, log, cookies, pagesClosed, result>>

\* lines 78-83
CsrfGoto ==
    /\ mode = "login" /\ pc = "csrf_goto"
    /\ \E n \in Navigations :
         /\ csrfPage' = [csrfPage EXCEPT !.nav = n.nav, !.resp = n.resp]
         /\ ev' = Append(ev, E("csrf", "goto", n.nav))
         /\ CASE n.nav = "timeout" ->
                   CsrfEnds(Raised(Timeout)) /\ pagesClosed' = pagesClosed
              [] n.nav = "error" ->
                   CsrfEnds(Raised(PlaywrightError("net::ERR_FAILED")))
                   /\ pagesClosed' = pagesClosed
              [] OTHER ->
                   IF CsrfResponseOk(n.resp)
                   THEN /\ pc' = "csrf_content"
                        /\ UNCHANGED <<csrfRet, result, pagesClosed>>
                   ELSE /\ pagesClosed' = pagesClosed + 1
                        /\ CsrfEnds(Raised(ForgeLoginException(
                               "Empty response when fetching CSRF token")))
    /\ UNCHANGED <<fnVars, mainVars, pubVars, mode, creds, site, log, cookies, pagesOpened>>

\* lines 85-93
CsrfContent ==
    /\ mode = "login" /\ pc = "csrf_content"
    /\ \/ /\ csrfPage' = [csrfPage EXCEPT !.read = "error"]
          /\ ev' = Append(ev, E("csrf", "content", "error"))
          /\ CsrfEnds(Raised(PlaywrightError("Unable to retrieve content")))
          /\ pagesClosed' = pagesClosed
       \/ \E h \in Htmls :
            /\ csrfPage' = [csrfPage EXCEPT !.read = "ok", !.html = h]
            /\ ev' = Append(ev, E("csrf", "content", "ok"))
            /\ pagesClosed' = pagesClosed + 1
            /\ CsrfEnds(CsrfParse(h))
    /\ UNCHANGED <<fnVars, mainVars, pubVars, mode, creds, site, log, cookies, pagesOpened>>

\* lines 131-135 and 147-151
LoginReturn ==
    /\ mode = "login" /\ pc = "login_return"
    /\ result' = Returned(AuthHeaders(cookies, csrfRet.value))
    /\ pc' = "done"
    /\ UNCHANGED <<fnVars, mainVars, pubVars, mode, creds, site, ev, log, cookies, csrfPage, csrfRet,
                   pagesOpened, pagesClosed>>

------------------------------------------------------------------------------
(* ForgeItem.upload_and_publish and the requests it makes *)

ItemId == "1337"

API_CRAFTER_ITEMS == "https://forge.fantasygrounds.com/api/crafter/items"

Channels == {"LIVE", "TEST", "NONE"}

\* ForgeReleaseChannel(...).value
ChannelValue(c) == CASE c = "LIVE" -> "1" [] c = "TEST" -> "2" [] OTHER -> "0"

FileNames == {"pack.ext", "rules.mod"}
FileLists == SeqUpTo(FileNames, MaxFiles) \ {<<>>}

\* build numbers as the listing carries them: strings of characters
BuildNums == {<<"2">>, <<"9">>, <<"1", "0">>, <<"x">>}

\* the identifier of the i-th descriptor of a listing
BuildId(i) == ToString(700 + i)

BuildLists ==
    UNION {{[i \in 1..k |-> [id |-> BuildId(i), build_num |-> f[i]]] : f \in [1..k -> BuildNums]}
           : k \in 0..MaxBuilds}

Digits == {"0", "1", "2", "3", "4", "5", "6", "7", "8", "9"}

DigitValue(c) ==
    CASE c = "0" -> 0 [] c = "1" -> 1 [] c = "2" -> 2 [] c = "3" -> 3 [] c = "4" -> 4
      [] c = "5" -> 5 [] c = "6" -> 6 [] c = "7" -> 7 [] c = "8" -> 8 [] OTHER -> 9

\* int(s) accepts s: a non-empty run of decimal digits
IsInt(s) == s # <<>> /\ \A i \in DOMAIN s : s[i] \in Digits

\* int(s) for a string of decimal digits
RECURSIVE PyInt(_)
PyInt(s) ==
    IF s = <<>> THEN 0
    ELSE 10 * PyInt(SubSeq(s, 1, Len(s) - 1)) + DigitValue(s[Len(s)])

\* the key of a descriptor compared as text: character by character
BuildKeyAsText(build) ==
    LET s == build.build_num
    IN 11 * (1 + DigitValue(s[1])) + (IF Len(s) > 1 THEN 1 + DigitValue(s[2]) ELSE 0)

\* line 164: key=lambda build: int(build["build_num"])
BuildKey(build) == PyInt(build.build_num)

\* max(items, key=...): the first item whose key no later item exceeds;
\* scanning left to right, the candidate changes only on a strictly greater key
RECURSIVE PyMaxFrom(_, _, _)
PyMaxFrom(items, i, best) ==
    IF i > Len(items) THEN best
    ELSE PyMaxFrom(items, i + 1,
                   IF BuildKey(items[i]) > BuildKey(items[best]) THEN i ELSE best)

PyMax(items) == items[PyMaxFrom(items, 2, 1)]

ForgeUploadException(status, text) ==
    [type |-> "ForgeUploadException",
     msg  |-> <<"Build upload failed with status ", ToString(status), ": ">> \o text]

OtherError(type) == [type |-> type, msg |-> <<>>]

\* lines 173-176: the multipart fields, one per file
UploadFiles(fs) ==
    [i \in DOMAIN fs |-> [field |-> <<"buildFiles[", ToString(i - 1), "]">>, name |-> fs[i]]]

\* lines 180-187: the headers without Content-Type, plus the same-origin headers
UploadHeaders(h) ==
    ("X-Requested-With" :> <<"XMLHttpRequest">>)
    @@ ("Origin" :> <<"https://forge.fantasygrounds.com">>)
    @@ ("Referer" :> <<"https://forge.fantasygrounds.com/crafter/manage-craft">>)
    @@ [k \in DOMAIN h \ {"Content-Type"} |-> h[k]]

Request(op, url, hdrs, files) == [op |-> op, url |-> url, headers |-> hdrs, files |-> files]

\* an answer of the marketplace: no answer at all (the connection failed),
\* or a status and a body
Response(status, text) == [status |-> status, text |-> text]
NoResponse == Response(0, <<>>)

UploadResponses ==
    {NoResponse} \cup {Response(st, tx) : st \in {200, 201, 500}, tx \in {<<>>, <<"Upload failed">>}}

\* line 191: the upload failed
UploadFailed(resp) == resp.text # <<>> \/ resp.status # HTTP_OK

\* a failed upload that does not end upload_and_publish
OnUploadRaise_Swallowed == "list"

\* line 159 is inside no try: an exception of upload_build_direct ends
\* upload_and_publish
OnUploadRaise == "done"

\* a channel test that never skips
SkipsChannel_Never(c) == FALSE

\* line 161: `channel is ForgeReleaseChannel.NONE`
SkipsChannel(c) == c = "NONE"

\* lines 180-181 with the caller's mapping updated in place instead of a copy
HeadersAfterUpload_InPlace(h) == UploadHeaders(h)

\* lines 180-181: upload_headers is a new dict built by a comprehension and
\* update() is applied to it, so the caller's mapping stays as it was
HeadersAfterUpload(h) == h

\* lines 158-163: upload_build_direct, then the early return for channel NONE
PubUpload ==
    /\ mode = "publish" /\ ppc = "upload"
    /\ \/ \* build.read_bytes() fails: nothing is sent
          /\ pubResult' = Raised(OtherError("OSError"))
          /\ ppc' = OnUploadRaise
          /\ log' = Append(log, <<"Uploading new build to Forge item">>)
          /\ UNCHANGED <<requests, responses, headers>>
       \/ \E resp \in UploadResponses :
            /\ requests' = Append(requests,
                   Request("upload", <<API_CRAFTER_ITEMS, "/", ItemId, "/builds/upload">>,
                           UploadHeaders(headers), UploadFiles(new_files)))
            /\ responses' = Append(responses, resp)
            /\ headers' = HeadersAfterUpload(headers)
            /\ IF resp = NoResponse
               THEN /\ pubResult' = Raised(OtherError("ConnectionError"))
                    /\ ppc' = OnUploadRaise
                    /\ log' = Append(log, <<"Uploading new build to Forge item">>)
               ELSE IF UploadFailed(resp)
               THEN /\ pubResult' = Raised(ForgeUploadException(resp.status, resp.text))
                    /\ ppc' = OnUploadRaise
                    /\ log' = Append(log, <<"Uploading new build to Forge item">>)
               ELSE IF SkipsChannel(channel)
               THEN /\ pubResult' = Returned(None)
                    /\ ppc' = "done"
                    /\ log' = log \o << <<"Uploading new build to Forge item">>,
                                        <<"Build upload complete for all files">>,
                                        <<"Target channel is set to none, not setting new build to a release channel.">> >>
               ELSE /\ pubResult' = pubResult
                    /\ ppc' = "list"
                    /\ log' = log \o << <<"Uploading new build to Forge item">>,
                                        <<"Build upload complete for all files">> >>
    /\ UNCHANGED <<fnVars, mainVars, mode, loginVars, new_files, channel, builds>>

\* line 164 with max() of an empty listing returning nothing instead of raising
MaxOutcome_EmptyReturns(data) ==
    IF data = <<>> THEN Returned(None)
    ELSE IF \E i \in DOMAIN data : ~IsInt(data[i].build_num)
    THEN Raised(OtherError("ValueError"))
    ELSE Pending

\* line 164: max() of an empty list and int() of a non-number raise ValueError;
\* otherwise upload_and_publish goes on
MaxOutcome(data) ==
    IF data = <<>> \/ \E i \in DOMAIN data : ~IsInt(data[i].build_num)
    THEN Raised(OtherError("ValueError"))
    ELSE Pending

\* lines 164-165 and 214-217: get_item_builds, then the choice of the latest build
PubListBuilds ==
    /\ mode = "publish" /\ ppc = "list"
    /\ requests' = Append(requests,
           Request("list", <<API_CRAFTER_ITEMS, "/", ItemId, "/builds/data-table">>,
                   headers, <<>>))
    /\ \/ \* the connection fails
          /\ responses' = Append(responses, NoResponse)
          /\ pubResult' = Raised(OtherError("ConnectionError"))
          /\ ppc' = "done"
          /\ UNCHANGED <<builds, log>>
       \/ \* the body is no JSON object with a "data" entry
          /\ responses' = Append(responses, Response(HTTP_OK, <<"<html>">>))
          /\ pubResult' = Raised(OtherError("JSONDecodeError"))
          /\ ppc' = "done"
          /\ UNCHANGED <<builds, log>>
       \/ \E data \in BuildLists :
            /\ responses' = Append(responses, Response(HTTP_OK, <<"data">>))
            /\ builds' = data
            /\ IF MaxOutcome(data) # Pending
               THEN /\ pubResult' = MaxOutcome(data)
                    /\ ppc' = "done"
                    /\ log' = log
               ELSE /\ pubResult' = pubResult
                    /\ ppc' = "assign"
                    /\ log' = Append(log, <<"Assigning new build to Forge channel: ",
                                            channel, ": ", ChannelValue(channel)>>)
    /\ UNCHANGED <<fnVars, mainVars, mode, loginVars, headers, new_files, channel>>

\* lines 166 and 219-222: set_build_channel; its boolean result is dropped
PubSetChannel ==
    /\ mode = "publish" /\ ppc = "assign"
    /\ requests' = Append(requests,
           Request("assign", <<API_CRAFTER_ITEMS, "/", ItemId, "/builds/", PyMax(builds).id,
                               "/channels/", ChannelValue(channel)>>,
                   headers, <<>>))
    /\ \E resp \in {NoResponse, Response(HTTP_OK, <<>>), Response(500, <<>>)} :
         /\ responses' = Append(responses, resp)
         /\ pubResult' = IF resp = NoResponse THEN Raised(OtherError("ConnectionError"))
                         ELSE Returned(None)
    /\ ppc' = "done"
    /\ UNCHANGED <<fnVars, mainVars, mode, log, loginVars, headers, new_files, channel, builds>>

------------------------------------------------------------------------------
(* main and get_bool_env; environment texts are sequences of characters *)

LowerCase == <<"a", "b", "c", "d", "e", "f", "g", "h", "i", "j", "k", "l", "m",
               "n", "o", "p", "q", "r", "s", "t", "u", "v", "w", "x", "y", "z">>
UpperCase == <<"A", "B", "C", "D", "E", "F", "G", "H", "I", "J", "K", "L", "M",
               "N", "O", "P", "Q", "R", "S", "T", "U", "V", "W", "X", "Y", "Z">>

UpperChar(c) ==
    IF \E i \in DOMAIN LowerCase : LowerCase[i] = c
    THEN UpperCase[CHOOSE i \in DOMAIN LowerCase : LowerCase[i] = c]
    ELSE c

\* str.upper()
Upper(s) == [i \in DOMAIN s |-> UpperChar(s[i])]

\* os.environ.get(key, default)
EnvGet(key, default) == IF env[key] = None THEN default ELSE env[key][1]

TruthyTokens == {<<"T", "R", "U", "E">>, <<"1">>, <<"Y", "E", "S">>, <<"O", "N">>}

\* get_bool_env with the default argument ignored
get_bool_env_DefaultIgnored(key, default) ==
    Upper(EnvGet(key, <<"F", "A", "L", "S", "E">>)) \in TruthyTokens

\* get_bool_env without the upper-casing of the value
get_bool_env_CaseSensitive(key, default) ==
    EnvGet(key, IF default THEN <<"T", "R", "U", "E">> ELSE <<"F", "A", "L", "S", "E">>)
        \in TruthyTokens

\* lines 19-22
get_bool_env(key, default) ==
    Upper(EnvGet(key, IF default THEN <<"T", "R", "U", "E">> ELSE <<"F", "A", "L", "S", "E">>))
        \in TruthyTokens

\* ForgeReleaseChannel[name]: the member of that name, or None for a KeyError
ChannelByName(name) ==
    CASE name = <<"L", "I", "V", "E">> -> Some("LIVE")
      [] name = <<"T", "E", "S", "T">> -> Some("TEST")
      [] name = <<"N", "O", "N", "E">> -> Some("NONE")
      [] OTHER -> None

\* line 114 without the upper-casing of the name
ParsedChannel_CaseSensitive ==
    ChannelByName(EnvGet("FG_RELEASE_CHANNEL", <<"L", "I", "V", "E">>))

\* line 114
ParsedChannel == ChannelByName(Upper(EnvGet("FG_RELEASE_CHANNEL", <<"L", "I", "V", "E">>)))

BoolTexts == {<<"y", "e", "s">>, <<"O", "n">>, <<"1">>, <<"o", "f", "f">>, <<>>}
ChannelTexts == {<<"t", "e", "s", "t">>, <<"N", "o", "n", "e">>, <<"L", "I", "V", "E">>,
                 <<"b", "e", "t", "a">>}

Opt(S) == {None} \cup {Some(x) : x \in S}

Environments ==
    {("FG_UPLOAD_BUILD" :> u) @@ ("FG_README_UPDATE" :> r)
       @@ ("FG_README_NO_IMAGES" :> n) @@ ("FG_RELEASE_CHANNEL" :> c) :
       u \in Opt(BoolTexts), r \in Opt(BoolTexts), n \in Opt(BoolTexts),
       c \in Opt(ChannelTexts)}

Call(op, by, out) == [op |-> op, by |-> by, out |-> out]

\* how a call of ForgeItem.login can end
LoginOutcomes ==
    {Returned(AuthHeaders(<<>>, <<"tok1">>)),
     Raised(ForgeLoginException(creds.username)),
     Raised(PlaywrightTimeoutError(NoFieldMsg))}

\* how a call of ForgeItem.upload_and_publish can end
PublishOutcomes ==
    {Returned(None), Raised(ForgeUploadException(500, <<>>)), Raised(OtherError("ValueError"))}

\* the try block is left: the finally block runs with exc in flight
EnterFinally(exc) == mpc' = "close_context" /\ pendingExc' = exc

\* a step of main that only creates a browser object; outside the try block
\* (lines 101-108) an exception leaves main at once
MainCreate(at, op, next) ==
    /\ mode = "main" /\ mpc = at
    /\ \E out \in {"return", "raise"} :
         /\ calls' = Append(calls, Call(op, "main", out))
         /\ IF out = "return"
            THEN mpc' = next /\ mainResult' = mainResult
            ELSE mpc' = "exit" /\ mainResult' = Raised(PlaywrightError(op))
    /\ UNCHANGED <<fnVars, mode, log, loginVars, pubVars, env, ctxClosed, browserClosed, pendingExc>>

\* line 101
MainLaunch == MainCreate("launch", "launch", "new_context")

\* lines 103-106
MainNewContext == MainCreate("new_context", "new_context", "new_page")

\* line 108
MainNewPage == MainCreate("new_page", "new_page", "login")

\* line 111
MainLogin ==
    /\ mode = "main" /\ mpc = "login"
    /\ \E o \in LoginOutcomes :
         /\ result' = o
         /\ calls' = Append(calls, Call("login", "main", o.kind))
         /\ IF o.kind = "return"
            THEN mpc' = "upload" /\ pendingExc' = pendingExc
            ELSE EnterFinally(Some(o.exc))
    /\ UNCHANGED <<fnVars, mode, log, pubVars, env, ctxClosed, browserClosed, mainResult,
                   pc, creds, site, ev, cookies, csrfPage, csrfRet, pagesOpened, pagesClosed>>

\* lines 113-115
MainUpload ==
    /\ mode = "main" /\ mpc = "upload"
    /\ IF ~get_bool_env("FG_UPLOAD_BUILD", TRUE)
       THEN /\ mpc' = "readme"
            /\ UNCHANGED <<calls, pendingExc, headers, channel, pubResult>>
       ELSE IF ParsedChannel = None
       THEN /\ EnterFinally(Some(OtherError("KeyError")))
            /\ UNCHANGED <<calls, headers, channel, pubResult>>
       ELSE \E o \in PublishOutcomes :
              /\ headers' = result.value
              /\ channel' = ParsedChannel[1]
              /\ pubResult' = o
              /\ calls' = Append(calls, Call("upload_and_publish", "main", o.kind))
              /\ IF o.kind = "return"
                 THEN mpc' = "readme" /\ pendingExc' = pendingExc
                 ELSE EnterFinally(Some(o.exc))
    /\ UNCHANGED <<fnVars, mode, log, loginVars, env, ctxClosed, browserClosed, mainResult,
                   ppc, new_files, requests, responses, builds>>

\* lines 117-118
MainGetReadme ==
    /\ mode = "main" /\ mpc = "readme"
    /\ IF ~get_bool_env("FG_README_UPDATE", FALSE)
       THEN EnterFinally(None) /\ calls' = calls
       ELSE \E out \in {"return", "raise"} :
              /\ calls' = Append(calls,
                     Call(IF get_bool_env("FG_README_NO_IMAGES", FALSE)
                          THEN "get_readme(no_images)" ELSE "get_readme", "main", out))
              /\ IF out = "return"
                 THEN mpc' = "update_description" /\ pendingExc' = pendingExc
                 ELSE EnterFinally(Some(OtherError("FileNotFoundError")))
    /\ UNCHANGED <<fnVars, mode, log, loginVars, pubVars, env, ctxClosed, browserClosed, mainResult>>

\* lines 119 and 249-261: update_description logs in again, then edits the page
MainUpdateDescription ==
    /\ mode = "main" /\ mpc = "update_description"
    /\ \E o \in LoginOutcomes :
         IF o.kind = "raise"
         THEN /\ calls' = calls \o <<Call("login", "update_description", "raise"),
                                    Call("update_description", "main", "raise")>>
              /\ EnterFinally(Some(o.exc))
         ELSE \E out \in {"return", "raise"} :
                /\ calls' = calls \o <<Call("login", "update_description", "return"),
                                      Call("update_description", "main", out)>>
                /\ EnterFinally(IF out = "return" THEN None ELSE Some(Timeout))
    /\ UNCHANGED <<fnVars, mode, log, loginVars, pubVars, env, ctxClosed, browserClosed, mainResult>>

\* line 122: an exception of context.close() replaces the one in flight and
\* leaves the finally block
MainCloseContext ==
    /\ mode = "main" /\ mpc = "close_context"
    /\ ctxClosed' = ctxClosed + 1
    /\ \E out \in {"return", "raise"} :
         /\ calls' = Append(calls, Call("context.close", "main", out))
         /\ IF out = "return"
            THEN mpc' = "close_browser" /\ mainResult' = mainResult
            ELSE mpc' = "exit" /\ mainResult' = Raised(PlaywrightError("context.close"))
    /\ UNCHANGED <<fnVars, mode, log, loginVars, pubVars, env, browserClosed, pendingExc>>

\* line 123, then the exception in flight (if any) leaves main
MainCloseBrowser ==
    /\ mode = "main" /\ mpc = "close_browser"
    /\ browserClosed' = browserClosed + 1
    /\ \E out \in {"return", "raise"} :
         /\ calls' = Append(calls, Call("browser.close", "main", out))
         /\ mainResult' = IF out = "raise" THEN Raised(PlaywrightError("browser.close"))
                          ELSE IF pendingExc # None THEN Raised(pendingExc[1])
                          ELSE Returned(None)
    /\ mpc' = "exit"
    /\ UNCHANGED <<fnVars, mode, log, loginVars, pubVars, env, ctxClosed, pendingExc>>

------------------------------------------------------------------------------
(* The login specification: one call of ForgeItem.login *)

NoItemPage == [editor |-> <<>>, saved |-> <<>>]

\* no function call is modelled in this behaviour
IdleFn ==
    /\ fn = "none" /\ input = <<>> /\ fnOut = Pending
    /\ step = "idle" /\ itemPage = NoItemPage

IdlePublish ==
    /\ ppc = "idle"
    /\ headers = AuthHeaders(<<>>, <<"tok1">>)
    /\ new_files = <<>>
    /\ channel = "NONE"
    /\ requests = <<>>
    /\ responses = <<>>
    /\ builds = <<>>
    /\ pubResult = Pending

IdleMain ==
    /\ mpc = "idle"
    /\ env = [k \in {"FG_UPLOAD_BUILD", "FG_README_UPDATE", "FG_README_NO_IMAGES",
                     "FG_RELEASE_CHANNEL"} |-> None]
    /\ calls = <<>>
    /\ ctxClosed = 0
    /\ browserClosed = 0
    /\ pendingExc = None
    /\ mainResult = Pending

InitLogin ==
    /\ IdleFn
    /\ mode = "login"
    /\ IdlePublish
    /\ IdleMain
    /\ pc = "start"
    /\ creds \in [username : Usernames, password : Passwords]
    /\ site = "none"
    /\ ev = <<>>
    /\ log = <<>>
    /\ cookies = <<>>
    /\ csrfPage = NoPage
    /\ csrfRet = Pending
    /\ pagesOpened = 0
    /\ pagesClosed = 0
    /\ result = Pending

NextLogin ==
    \/ GotoLogin
    \/ WaitUsername
    \/ WaitPassword
    \/ FillUsername
    \/ FillPassword
    \/ WaitLoginButton
    \/ ClickLogin
    \/ WaitFailure
    \/ LoggedIn
    \/ WaitItemsTable
    \/ CsrfNewPage
    \/ CsrfGoto
    \/ CsrfContent
    \/ LoginReturn

SpecLogin == InitLogin /\ [][NextLogin]_vars


------------------------------------------------------------------------------
(* The publish specification: one call of ForgeItem.upload_and_publish *)

IdleLogin ==
    /\ pc = "idle"
    /\ creds = [username |-> "alice", password |-> "pw1"]
    /\ site = "none"
    /\ ev = <<>>
    /\ cookies = <<>>
    /\ csrfPage = NoPage
    /\ csrfRet = Pending
    /\ pagesOpened = 0
    /\ pagesClosed = 0
    /\ result = Pending

\* header sets a caller passes: what login returns, and one that also
\* carries a Content-Type entry
HeaderSets ==
    {AuthHeaders(<<>>, <<"tok1">>),
     AuthHeaders(<<[name |-> "sid", value |-> "a"]>>, <<"tok2">>)
        @@ ("Content-Type" :> <<"application/json">>)}

InitPublish ==
    /\ IdleFn
    /\ mode = "publish"
    /\ IdleLogin
    /\ IdleMain
    /\ log = <<>>
    /\ ppc = "upload"
    /\ headers \in HeaderSets
    /\ new_files \in FileLists
    /\ channel \in Channels
    /\ requests = <<>>
    /\ responses = <<>>
    /\ builds = <<>>
    /\ pubResult = Pending

NextPublish ==
    \/ PubUpload
    \/ PubListBuilds
    \/ PubSetChannel

SpecPublish == InitPublish /\ [][NextPublish]_vars

------------------------------------------------------------------------------
(* The specification of a run of main *)

Init ==
    /\ IdleFn
    /\ mode = "main"
    /\ IdleLogin
    /\ IdlePublish
    /\ log = <<>>
    /\ mpc = "launch"
    /\ env \in Environments
    /\ calls = <<>>
    /\ ctxClosed = 0
    /\ browserClosed = 0
    /\ pendingExc = None
    /\ mainResult = Pending

Next ==
    \/ MainLaunch
    \/ MainNewContext
    \/ MainNewPage
    \/ MainLogin
    \/ MainUpload
    \/ MainGetReadme
    \/ MainUpdateDescription
    \/ MainCloseContext
    \/ MainCloseBrowser

Spec == Init /\ [][Next]_vars

------------------------------------------------------------------------------
(* Claims about ForgeItem.login and get_csrf_token, checked under SpecLogin *)

LoginDone == mode = "login" /\ pc = "done"

\* the login prompt (username or password field) did not appear in time
PromptAbsent == Did("wait", "username", "timeout") \/ Did("wait", "password", "timeout")

NothingSubmitted ==
    /\ Count("fill", "username") = 0
    /\ Count("fill", "password") = 0
    /\ Count("click", "login_button") = 0

\* the credentials were typed and the login control was clicked
Submitted ==
    /\ \E i \in DOMAIN ev : ev[i] = Typed("username", "ok", creds.username)
    /\ \E i \in DOMAIN ev : ev[i] = Typed("password", "ok", creds.password)
    /\ Did("click", "login_button", "ok")

C7_FailureIndicatorRaises ==
    Did("wait", "failure", "found") =>
        /\ Submitted
        /\ LoginDone
        /\ result.kind = "raise"
        /\ result.exc.type = "ForgeLoginException"
        /\ \E i \in DOMAIN ev :
             /\ ev[i].op = "fill" /\ ev[i].arg = "username"
             /\ result.exc.msg = <<"Attempted login as ", ev[i].text, " was unsuccessful">>
        /\ Count("wait", "items_table") = 0
        /\ Count("cookies", "context") = 0
        /\ pagesOpened = 0

C7_Witness == LoginDone /\ Did("wait", "failure", "found") /\ creds.username = "bob"

\* C8: when credentials were submitted and no failure indicator appears within
\* the timeout, login returns a header mapping and raises nothing, unless
\* get_csrf_token itself failed to deliver the token.
C8_NoFailureIndicatorSucceeds ==
    (LoginDone /\ Did("wait", "failure", "timeout")) =>
        /\ Submitted
        /\ result.kind = "return" \/ csrfRet.kind = "raise"
        /\ result.kind = "return" =>
             DOMAIN result.value = {"Cookie", "X-CSRF-TOKEN", "User-Agent"}

C8_Witness ==
    /\ LoginDone /\ Did("wait", "failure", "timeout")
    /\ result.kind = "return" /\ site = "cred"

\* "name=value" pairs joined with "; ", piece by piece
RECURSIVE Rendered(_)
Rendered(cs) ==
    IF cs = <<>> THEN <<>>
    ELSE Rendered(SubSeq(cs, 1, Len(cs) - 1))
         \o (IF Len(cs) > 1 THEN <<"; ">> ELSE <<>>)
         \o <<cs[Len(cs)].name, "=", cs[Len(cs)].value>>

\* C9: every successful return of login yields exactly the keys Cookie,
\* X-CSRF-TOKEN and User-Agent; Cookie is the cookies rendered name=value and
\* joined with "; " in order, X-CSRF-TOKEN is the content of the csrf-token
\* element the page served, User-Agent is the fixed string; the mapping depends
\* only on the cookies and the token, not on the path taken.
C9_HeaderSet ==
    (LoginDone /\ result.kind = "return") =>
        /\ DOMAIN result.value = {"Cookie", "X-CSRF-TOKEN", "User-Agent"}
        /\ result.value["Cookie"] = Rendered(cookies)
        /\ csrfPage.html.meta
        /\ csrfPage.html.content = Some(result.value["X-CSRF-TOKEN"])
        /\ result.value["User-Agent"] = UserAgent

\* a success status of the navigation (Response.ok)
SuccessStatus(resp) == resp # None /\ resp[1] \in 200..299

\* the cases in which C10 requires get_csrf_token to fail
CsrfMustFail ==
    \/ csrfPage.resp = None
    \/ ~SuccessStatus(csrfPage.resp)
    \/ ~csrfPage.html.meta
    \/ csrfPage.html.content = None
    \/ csrfPage.html.content = Some(<<>>)

\* C10: a completed get_csrf_token call whose navigation and content read did
\* not themselves raise fails with ForgeLoginException when there is no
\* response, the status is not a success, the csrf-token element is absent or
\* its content is missing or empty; otherwise it returns exactly the content.
C10_CsrfTokenContract ==
    (csrfRet.kind # "pending" /\ csrfPage.nav = "ok" /\ csrfPage.read # "error") =>
        IF CsrfMustFail
        THEN csrfRet.kind = "raise" /\ csrfRet.exc.type = "ForgeLoginException"
        ELSE csrfRet = Returned(csrfPage.html.content[1])

------------------------------------------------------------------------------
(* Claims about ForgeItem.upload_and_publish, checked under SpecPublish *)

Issued(op) == {i \in DOMAIN requests : requests[i].op = op}

\* upload_build_direct returned without raising: its last line was logged
UploadReturned == \E i \in DOMAIN log : log[i] = <<"Build upload complete for all files">>

\* C1: with a channel other than NONE the calls happen in the order
\* upload -> list-builds -> assign-channel: the listing is requested only
\* after the upload has returned, the assignment only after the upload has
\* returned and the listing was requested, and when the upload raises neither
\* the listing nor the assignment is issued.
C1_UploadListAssignOrder ==
    (mode = "publish" /\ channel # "NONE") =>
        /\ \A i \in Issued("list") :
             UploadReturned /\ \E u \in Issued("upload") : u < i
        /\ \A i \in Issued("assign") :
             /\ UploadReturned
             /\ \E u \in Issued("upload") : \E l \in Issued("list") : u < l /\ l < i
        /\ ~UploadReturned => (Issued("list") = {} /\ Issued("assign") = {})
        /\ Cardinality(Issued("upload")) <= 1

C1_Witness ==
    /\ mode = "publish" /\ ppc = "done" /\ channel = "TEST"
    /\ Issued("upload") = {1} /\ Issued("list") = {2} /\ Issued("assign") = {3}

\* C2: when the requested channel is NONE, no builds listing and no channel
\* assignment is ever requested, whatever the upload answers, and the upload
\* is still performed: the run ends after the upload request (or after a
\* file that cannot be read).
C2_NoneNeverAssigns ==
    (mode = "publish" /\ channel = "NONE") =>
        /\ Issued("list") = {}
        /\ Issued("assign") = {}
        /\ ppc = "done" =>
             \/ Issued("upload") = {1}
             \/ pubResult = Raised(OtherError("OSError"))

C2_Witness ==
    /\ mode = "publish" /\ ppc = "done" /\ channel = "NONE"
    /\ pubResult = Returned(None) /\ Issued("upload") = {1}

\* the build identifier and the channel code of an assignment request
AssignedBuild(r) == r.url[5]
AssignedCode(r) == r.url[7]

CodeOfRequestedChannel(r) ==
    /\ channel = "LIVE" => AssignedCode(r) = "1"
    /\ channel = "TEST" => AssignedCode(r) = "2"

\* C3 as stated: the build assigned is the one whose build_num, as an
\* integer, is strictly greater than that of every other descriptor of the
\* listing, and the channel code is the requested channel's value.
C3_StrictlyGreatestBuild ==
    \A i \in Issued("assign") :
        /\ \E b \in DOMAIN builds :
             /\ AssignedBuild(requests[i]) = builds[b].id
             /\ \A o \in DOMAIN builds \ {b} :
                  PyInt(builds[o].build_num) < PyInt(builds[b].build_num)
        /\ CodeOfRequestedChannel(requests[i])

\* C3 amended: the build assigned is one whose build_num, as an integer, no
\* other descriptor of the listing exceeds ("10" beats "9"), namely the first
\* such descriptor in listing order when several share the maximum, and the
\* channel code is the requested channel's value (LIVE "1", TEST "2").
C3_FirstGreatestBuild ==
    \A i \in Issued("assign") :
        /\ \E b \in DOMAIN builds :
             /\ AssignedBuild(requests[i]) = builds[b].id
             /\ \A o \in DOMAIN builds :
                  PyInt(builds[o].build_num) <= PyInt(builds[b].build_num)
             /\ \A o \in 1..(b - 1) :
                  PyInt(builds[o].build_num) < PyInt(builds[b].build_num)
        /\ CodeOfRequestedChannel(requests[i])

C3_Witness ==
    /\ mode = "publish" /\ Issued("assign") = {3}
    /\ builds = <<[id |-> BuildId(1), build_num |-> <<"9">>],
                  [id |-> BuildId(2), build_num |-> <<"1", "0">>]>>
    /\ AssignedBuild(requests[3]) = BuildId(2)
    /\ channel = "TEST"
------------------------------------------------------------------------------
(* Claims about main, checked under Spec *)

MainExited == mode = "main" /\ mpc = "exit"

Called(op) == {i \in DOMAIN calls : calls[i].op = op /\ calls[i].by = "main"}

Launched == \E i \in Called("launch") : calls[i].out = "return"
ContextCreated == \E i \in Called("new_context") : calls[i].out = "return"

\* C4: once the browser has been launched, the browser is closed exactly once
\* on every exit path of main, and so is the browser context (when it was
\* created): after normal completion and after an exception of any step,
\* context/page creation and the context close included.
C4_ClosedOnEveryExit ==
    (MainExited /\ Launched) =>
        /\ browserClosed = 1
        /\ ContextCreated => ctxClosed = 1

\* the flags as the configuration defines them: TRUE, 1, YES, ON in any
\* case are true, every other text is false, unset is the default
OnTexts == {Some(<<"y", "e", "s">>), Some(<<"O", "n">>), Some(<<"1">>)}
UploadWanted == env["FG_UPLOAD_BUILD"] \in OnTexts \cup {None}
ReadmeWanted == env["FG_README_UPDATE"] \in OnTexts

\* C5: main calls login first; upload_and_publish and update_description are
\* called only after login has returned, never when login raised, at most once
\* each, upload_and_publish before update_description, and only when their
\* flag is on (FG_UPLOAD_BUILD, default on; FG_README_UPDATE, default off); a
\* run that ends normally has called exactly the enabled steps.
C5_LoginThenOptionalSteps ==
    mode = "main" =>
        LET up  == Called("upload_and_publish")
            upd == Called("update_description")
        IN /\ \A i \in up \cup upd :
                \E j \in Called("login") : j < i /\ calls[j].out = "return"
           /\ (\E j \in Called("login") : calls[j].out = "raise") => (up = {} /\ upd = {})
           /\ \A u \in up : \A d \in upd : u < d
           /\ Cardinality(up) <= 1 /\ Cardinality(upd) <= 1
           /\ up # {} => UploadWanted
           /\ upd # {} => ReadmeWanted
           /\ mainResult = Returned(None) =>
                ((up # {} <=> UploadWanted) /\ (upd # {} <=> ReadmeWanted))

C5_Witness ==
    /\ MainExited /\ mainResult = Returned(None)
    /\ env["FG_UPLOAD_BUILD"] = None /\ env["FG_README_UPDATE"] = Some(<<"y", "e", "s">>)
    /\ Called("upload_and_publish") # {} /\ Called("update_description") # {}

------------------------------------------------------------------------------
(* Claims about ForgeItem.upload_build_direct, checked under SpecPublish *)

\* C11: the upload fails, raising ForgeUploadException with the status code
\* and the body text, exactly when the answer has a non-empty body or a
\* status outside 200..299; an empty 2xx answer is a success.
C11_UploadFailsOnBodyOrNon2xx ==
    (mode = "publish" /\ Len(responses) >= 1 /\ responses[1] # NoResponse) =>
        LET r == responses[1]
        IN IF r.text # <<>> \/ r.status \notin 200..299
           THEN /\ ~UploadReturned
                /\ pubResult.kind = "raise"
                /\ pubResult.exc.type = "ForgeUploadException"
                /\ pubResult.exc.msg =
                     <<"Build upload failed with status ", ToString(r.status), ": ">> \o r.text
           ELSE UploadReturned

------------------------------------------------------------------------------
(* Claims about retries inside ForgeItem.login, checked under SpecLogin *)

\* the CSRF page fetch timed out after the credentials had been submitted
CsrfTimedOutAfterSubmit ==
    \E i, j \in DOMAIN ev :
        /\ i < j
        /\ ev[i] = E("click", "login_button", "ok")
        /\ ev[j] = E("csrf", "goto", "timeout")

\* C20: nothing is retried within one call of login: the credentials are
\* submitted at most once, the CSRF token page is fetched at most once, and a
\* timeout of the CSRF page fetch after a successful submission ends login
\* with that timeout instead of a second attempt through another branch.
C20_NoRetryInLogin ==
    mode = "login" =>
        /\ Count("click", "login_button") <= 1
        /\ Count("csrf", "new_page") <= 1
        /\ pagesOpened <= 1
        /\ CsrfTimedOutAfterSubmit => (pc = "done" /\ result = Raised(Timeout))

------------------------------------------------------------------------------
(* Claims about the release channel chosen by main, checked under Spec *)

SameIgnoringCase(a, b) ==
    Len(a) = Len(b) /\ \A i \in DOMAIN a : UpperChar(a[i]) = UpperChar(b[i])

MemberNames ==
    [LIVE |-> <<"L", "I", "V", "E">>, TEST |-> <<"T", "E", "S", "T">>,
     NONE |-> <<"N", "O", "N", "E">>]

\* the members of {LIVE, TEST, NONE} that FG_RELEASE_CHANNEL names, LIVE when
\* the variable is unset
RequestedMembers ==
    IF env["FG_RELEASE_CHANNEL"] = None
    THEN {"LIVE"}
    ELSE {m \in DOMAIN MemberNames :
            SameIgnoringCase(env["FG_RELEASE_CHANNEL"][1], MemberNames[m])}

LoginReturnedInMain == \E j \in Called("login") : calls[j].out = "return"

\* C16: the channel passed to upload_and_publish is the member of
\* {LIVE, TEST, NONE} named by FG_RELEASE_CHANNEL without regard to case, LIVE
\* when the variable is unset; a value naming no member ends the run with an
\* error before any upload (and any later step), and a value naming a member
\* never causes that error.
C16_ChannelFromEnvironment ==
    mode = "main" =>
        /\ Called("upload_and_publish") # {} => RequestedMembers = {channel}
        /\ RequestedMembers = {} =>
             /\ Called("upload_and_publish") = {}
             /\ (UploadWanted /\ LoginReturnedInMain /\ mpc \notin {"upload", "login"}) =>
                   /\ pendingExc = Some(OtherError("KeyError"))
                   /\ Called("update_description") = {}
                   /\ MainExited => mainResult.kind = "raise"
        /\ RequestedMembers # {} => pendingExc # Some(OtherError("KeyError"))

\* a run with FG_RELEASE_CHANNEL=test in lower case uploaded to TEST
C16_Witness ==
    /\ MainExited
    /\ env["FG_RELEASE_CHANNEL"] = Some(<<"t", "e", "s", "t">>)
    /\ Called("upload_and_publish") # {}
    /\ channel = "TEST"

\* a run whose FG_RELEASE_CHANNEL names no member ended with the KeyError
C16_WitnessInvalid ==
    /\ MainExited
    /\ env["FG_RELEASE_CHANNEL"] = Some(<<"b", "e", "t", "a">>)
    /\ mainResult = Raised(OtherError("KeyError"))

------------------------------------------------------------------------------
(* resolve_file_paths of main.py (the one construct_objects calls) and of  *)
(* file_handling.py, over a small file tree below the project root         *)

MaxSegments == 3

ProjectRoot == "/proj/"

\* the file tree: the kind of every resolved path that exists
FsKind(p) ==
    CASE p = <<ProjectRoot, "a.zip">> -> "file"
      [] p = <<ProjectRoot, "d">> -> "dir"
      [] p = <<ProjectRoot, "d/", "x.zip">> -> "file"
      [] p = <<ProjectRoot, "d/", "y.zip">> -> "file"
      [] p = <<ProjectRoot, "d/", "sub">> -> "dir"
      [] p = <<ProjectRoot, "e">> -> "dir"
      [] p = <<ProjectRoot, "s">> -> "dir"
      [] p = <<ProjectRoot, "s/", "sub">> -> "dir"
      [] p = <<ProjectRoot, "sock">> -> "socket"
      [] p = <<ProjectRoot, "fifo">> -> "fifo"
      [] OTHER -> "missing"

\* the orders in which iterdir() may list the directory d
DirListings ==
    {<< <<ProjectRoot, "d/", "x.zip">>, <<ProjectRoot, "d/", "sub">>,
        <<ProjectRoot, "d/", "y.zip">> >>,
     << <<ProjectRoot, "d/", "y.zip">>, <<ProjectRoot, "d/", "x.zip">>,
        <<ProjectRoot, "d/", "sub">> >>}

\* Path.iterdir()
IterDir(p, listing) ==
    CASE p = <<ProjectRoot, "d">> -> listing
      [] p = <<ProjectRoot, "s">> -> << <<ProjectRoot, "s/", "sub">> >>
      [] OTHER -> <<>>

\* the texts between the commas of the path string
SegmentTexts ==
    {<<>>, <<" ">>,
     <<"a.zip">>, <<" ", ProjectRoot, "a.zip", " ">>, <<"d/", "x.zip">>,
     <<"d">>, <<" ", "./", "d">>, <<"e">>, <<"s">>,
     <<"gone">>, <<"sock">>, <<"fifo">>}

PathStrings == {Join(",", segs) : segs \in SeqUpTo(SegmentTexts, MaxSegments) \ {<<>>}}

\* str.split(",")
RECURSIVE SplitFrom(_, _)
SplitFrom(text, cur) ==
    IF text = <<>> THEN <<cur>>
    ELSE IF Head(text) = "," THEN <<cur>> \o SplitFrom(Tail(text), <<>>)
    ELSE SplitFrom(Tail(text), Append(cur, Head(text)))

Split(text) == SplitFrom(text, <<>>)

\* str.strip()
Strip(text) ==
    LET keep == {i \in DOMAIN text : text[i] # " "}
    IN IF keep = {} THEN <<>>
       ELSE SubSeq(text, CHOOSE i \in keep : \A j \in keep : i <= j,
                         CHOOSE i \in keep : \A j \in keep : j <= i)

\* lines 52-53: the absolute path, "." components removed
ResolvePath(cleaned) ==
    LET abs == IF Head(cleaned) = ProjectRoot THEN cleaned ELSE <<ProjectRoot>> \o cleaned
    IN SelectSeq(abs, LAMBDA piece : piece # "./")

IsFile(p) == FsKind(p) = "file"
IsDir(p) == FsKind(p) = "dir"
Exists(p) == FsKind(p) # "missing"

\* file_handling.py lines 7-19
_describe_path_type(p) ==
    CASE FsKind(p) = "symlink" -> "symbolic link"
      [] FsKind(p) = "socket" -> "socket"
      [] FsKind(p) = "fifo" -> "FIFO / named pipe"
      [] FsKind(p) = "block" -> "block device"
      [] FsKind(p) = "char" -> "character device"
      [] OTHER -> "unknown filesystem object"

FileNotFoundError(msg) == [type |-> "FileNotFoundError", msg |-> msg]
ValueError(msg) == [type |-> "ValueError", msg |-> msg]

\* line 72-74 of main.py, line 70 of file_handling.py
InvalidPathMsg(module, p) ==
    IF module = "main"
    THEN <<"Path at ">> \o p \o <<" is neither a file nor a directory.">>
    ELSE <<"Path at ">> \o p \o <<" is neither a file nor a directory. Filesystem object type: ",
                                  _describe_path_type(p)>>

\* line 64 with every directory entry kept, whatever its kind
DirFiles_AnyEntry(p, listing) == IterDir(p, listing)

\* line 64: the regular files directly inside the directory
DirFiles(p, listing) == SelectSeq(IterDir(p, listing), IsFile)

\* lines 62, 68-70: the logger.info lines of one directory
DirLogLines(p, files) ==
    << <<"Directory upload path determined to be: ">> \o p
          \o <<" (contains ", ToString(Len(files)), " files)">> >>
    \o [i \in DOMAIN files |-> <<"  - ", files[i][Len(files[i])]>>]

\* lines 46-76: the loop over the segments; the outcome and the lines logged
RECURSIVE ResolveFrom(_, _, _, _, _)
ResolveFrom(module, segs, listing, all_files, lines) ==
    IF segs = <<>> THEN [out |-> Returned(all_files), lines |-> lines]
    ELSE LET cleaned == Strip(Head(segs))
             resolved == ResolvePath(cleaned)
             files == DirFiles(resolved, listing)
         IN IF cleaned = <<>>
            THEN ResolveFrom(module, Tail(segs), listing, all_files, lines)
            ELSE IF ~Exists(resolved)
            THEN [out |-> Raised(FileNotFoundError(
                              <<"Path at ">> \o resolved \o <<" does not exist.">>)),
                  lines |-> lines]
            ELSE IF IsFile(resolved)
            THEN ResolveFrom(module, Tail(segs), listing, Append(all_files, resolved),
                     Append(lines, <<"File upload path determined to be: ">> \o resolved))
            ELSE IF IsDir(resolved)
            THEN IF files = <<>>
                 THEN [out |-> Raised(ValueError(
                                  <<"Directory at ">> \o resolved \o <<" contains no files.">>)),
                       lines |-> lines]
                 ELSE ResolveFrom(module, Tail(segs), listing, all_files \o files,
                                  lines \o DirLogLines(resolved, files))
            ELSE [out |-> Raised(ValueError(InvalidPathMsg(module, resolved))),
                  lines |-> lines]

resolve_file_paths(module, path_string, listing) ==
    ResolveFrom(module, Split(path_string), listing, <<>>, <<>>)

ResolveCall(module) ==
    /\ mode = "resolve" /\ fn = "none"
    /\ fn' = module \o ".resolve_file_paths"
    /\ fnOut' = resolve_file_paths(module, input.path_string, input.listing).out
    /\ log' = log \o resolve_file_paths(module, input.path_string, input.listing).lines
    /\ UNCHANGED <<step, itemPage, mode, input, loginVars, pubVars, mainVars>>

\* main.py line 82
ConstructObjectsResolve == ResolveCall("main")

\* file_handling.py line 22
FileHandlingResolve == ResolveCall("file_handling")

InitResolve ==
    /\ mode = "resolve"
    /\ IdleLogin
    /\ IdlePublish
    /\ IdleMain
    /\ log = <<>>
    /\ fn = "none"
    /\ step = "idle"
    /\ itemPage = NoItemPage
    /\ input \in [path_string : PathStrings, listing : DirListings]
    /\ fnOut = Pending

NextResolve == ConstructObjectsResolve \/ FileHandlingResolve

SpecResolve == InitResolve /\ [][NextResolve]_vars

------------------------------------------------------------------------------
(* Claims about resolve_file_paths, checked under SpecResolve *)

Resolved == mode = "resolve" /\ fn # "none"

InputSegments == Split(input.path_string)

Blank(seg) == \A i \in DOMAIN seg : seg[i] = " "

\* the path a non-blank segment names
Target(seg) == ResolvePath(Strip(seg))

\* the regular files directly inside a directory
RegularChildren(p) ==
    {c \in {IterDir(p, input.listing)[i] : i \in DOMAIN IterDir(p, input.listing)} :
        FsKind(c) = "file"}

\* what a segment contributes: nothing, its file, or the files of its directory
Contribution(seg) ==
    IF Blank(seg) THEN {}
    ELSE IF FsKind(Target(seg)) = "file" THEN {Target(seg)}
    ELSE IF FsKind(Target(seg)) = "dir" THEN RegularChildren(Target(seg))
    ELSE {}

\* a segment on which the resolution fails
Offending(seg) == ~Blank(seg) /\ Contribution(seg) = {}

FirstOffending(i) ==
    /\ i \in DOMAIN InputSegments
    /\ Offending(InputSegments[i])
    /\ \A j \in 1..(i - 1) : ~Offending(InputSegments[j])

\* C12: for an input of existing files, non-empty directories and blank
\* segments the result holds exactly the listed files and the regular files
\* directly inside the listed directories, and each path once, also when it is
\* named more than once (or directly and through its directory).
C12_UnionWithoutDuplicates ==
    (Resolved /\ \A i \in DOMAIN InputSegments : ~Offending(InputSegments[i])) =>
        /\ fnOut.kind = "return"
        /\ {fnOut.value[i] : i \in DOMAIN fnOut.value} =
              UNION {Contribution(InputSegments[i]) : i \in DOMAIN InputSegments}
        /\ \A i, j \in DOMAIN fnOut.value : i # j => fnOut.value[i] # fnOut.value[j]

\* the same without the demand that a path appears once
C12_UnionOfContributions ==
    (Resolved /\ \A i \in DOMAIN InputSegments : ~Offending(InputSegments[i])) =>
        /\ fnOut.kind = "return"
        /\ {fnOut.value[i] : i \in DOMAIN fnOut.value} =
              UNION {Contribution(InputSegments[i]) : i \in DOMAIN InputSegments}

\* C13: resolve_file_paths fails fast. The first segment it cannot resolve
\* decides the outcome, however many earlier segments were resolved: a
\* nonexistent path raises FileNotFoundError, a directory with no regular file
\* directly inside (empty, or holding only subdirectories) raises the
\* empty-directory ValueError, and no list is returned.
C13_FailFast ==
    Resolved =>
        \A i \in DOMAIN InputSegments :
            FirstOffending(i) =>
                LET p == Target(InputSegments[i])
                IN /\ fnOut.kind = "raise"
                   /\ FsKind(p) = "missing" =>
                        fnOut.exc = FileNotFoundError(
                                        <<"Path at ">> \o p \o <<" does not exist.">>)
                   /\ FsKind(p) = "dir" =>
                        fnOut.exc = ValueError(
                                        <<"Directory at ">> \o p \o <<" contains no files.">>)

\* after two segments that resolved, a directory holding only a subdirectory
\* raised the empty-directory error
C13_Witness ==
    /\ Resolved
    /\ input.path_string = <<"a.zip", ",", "d", ",", "s">>
    /\ fnOut = Raised(ValueError(<<"Directory at ", ProjectRoot, "s", " contains no files.">>))

\* a nonexistent path after a resolved file raised the not-found error
C13_WitnessNotFound ==
    /\ Resolved
    /\ input.path_string = <<"a.zip", ",", "gone">>
    /\ fnOut.kind = "raise" /\ fnOut.exc.type = "FileNotFoundError"

\* C14: when the first segment that cannot be resolved names an existing path
\* that is neither a regular file nor a directory, the resolver main uses
\* raises the invalid-path ValueError and its message names the detected
\* object type.
C14_InvalidPathNamesType ==
    (mode = "resolve" /\ fn = "main.resolve_file_paths") =>
        \A i \in DOMAIN InputSegments :
            (FirstOffending(i) /\ FsKind(Target(InputSegments[i])) \in {"socket", "fifo"}) =>
                /\ fnOut.kind = "raise"
                /\ fnOut.exc.type = "ValueError"
                /\ \E k \in DOMAIN fnOut.exc.msg :
                      fnOut.exc.msg[k] = _describe_path_type(Target(InputSegments[i]))

\* the resolver of file_handling.py does name the type
C14_FileHandlingNamesType ==
    (mode = "resolve" /\ fn = "file_handling.resolve_file_paths") =>
        \A i \in DOMAIN InputSegments :
            (FirstOffending(i) /\ FsKind(Target(InputSegments[i])) \in {"socket", "fifo"}) =>
                /\ fnOut.kind = "raise"
                /\ fnOut.exc.type = "ValueError"
                /\ \E k \in DOMAIN fnOut.exc.msg :
                      fnOut.exc.msg[k] = _describe_path_type(Target(InputSegments[i]))

------------------------------------------------------------------------------
(* One call of get_bool_env *)

BoolKeys == {"FG_UPLOAD_BUILD", "FG_README_UPDATE"}

\* texts a boolean variable may be set to
BoolEnvTexts ==
    {<<"t", "r", "u", "e">>, <<"T", "R", "U", "E">>, <<"t", "R", "u", "E">>, <<"1">>,
     <<"y", "e", "s">>, <<"O", "n">>, <<"o", "f", "f">>, <<"n", "o">>, <<"0">>,
     <<"F", "A", "L", "S", "E">>, <<>>, <<"y", "e", "s", " ">>, <<"y">>}

BoolEnvironments ==
    {[k \in {"FG_UPLOAD_BUILD", "FG_README_UPDATE", "FG_README_NO_IMAGES",
             "FG_RELEASE_CHANNEL"} |->
         IF k = "FG_UPLOAD_BUILD" THEN u ELSE IF k = "FG_README_UPDATE" THEN r ELSE None] :
       u \in Opt(BoolEnvTexts), r \in Opt(BoolEnvTexts)}

\* line 19: default is False when the caller gives none
DefaultArg(given) == IF given = None THEN FALSE ELSE given[1]

GetBoolEnvCall ==
    /\ mode = "bool" /\ fn = "none"
    /\ fn' = "get_bool_env"
    /\ fnOut' = Returned(get_bool_env(input.key, DefaultArg(input.default)))
    /\ UNCHANGED <<step, itemPage, mode, log, input, loginVars, pubVars, mainVars>>

InitBool ==
    /\ mode = "bool"
    /\ IdleLogin
    /\ IdlePublish
    /\ log = <<>>
    /\ mpc = "idle"
    /\ env \in BoolEnvironments
    /\ calls = <<>>
    /\ ctxClosed = 0
    /\ browserClosed = 0
    /\ pendingExc = None
    /\ mainResult = Pending
    /\ fn = "none"
    /\ step = "idle"
    /\ itemPage = NoItemPage
    /\ input \in [key : BoolKeys, default : Opt(BOOLEAN)]
    /\ fnOut = Pending

NextBool == GetBoolEnvCall

SpecBool == InitBool /\ [][NextBool]_vars

\* C15: get_bool_env returns true exactly when the variable is set to one of
\* TRUE, 1, YES, ON in any mix of cases, false for every other text it is set
\* to (the empty text included), and the default when it is unset: false when
\* no default is given.
C15_BoolEnvTruthTable ==
    (mode = "bool" /\ fn = "get_bool_env") =>
        LET v == env[input.key]
        IN fnOut = Returned(IF v = None
                            THEN input.default = Some(TRUE)
                            ELSE \E t \in TruthyTokens : SameIgnoringCase(v[1], t))

\* a mixed-case token was read as true although the default was false
C15_Witness ==
    /\ mode = "bool" /\ fn = "get_bool_env"
    /\ env[input.key] = Some(<<"t", "R", "u", "E">>)
    /\ input.default = Some(FALSE)
    /\ fnOut = Returned(TRUE)

\* unset with default true was read as true
C15_WitnessDefault ==
    /\ mode = "bool" /\ fn = "get_bool_env"
    /\ env[input.key] = None
    /\ input.default = Some(TRUE)
    /\ fnOut = Returned(TRUE)

------------------------------------------------------------------------------
(* build_processing.py: the parsed README (a BeautifulSoup tree) and the   *)
(* two passes over it.  A node is [tag, attrs, kids, string]; an attribute *)
(* is None (absent) or Some(text).                                         *)

MaxNodes == 2

NoAttrs == [href |-> None, src |-> None, alt |-> None, style |-> None]

TextNode(s) == [tag |-> "#text", attrs |-> NoAttrs, kids |-> <<>>, string |-> s]
Element(tag, attrs, kids) == [tag |-> tag, attrs |-> attrs, kids |-> kids, string |-> ""]

\* BeautifulSoup(html, "html.parser"): the document node above the top-level nodes
Soup(kids) == Element("[document]", NoAttrs, kids)

ImgNodes ==
    {Element("img", [NoAttrs EXCEPT !.src = s, !.alt = a], <<>>) :
        s \in {None, Some("image.png")}, a \in {None, Some(""), Some("Test Image")}}

\* an anchor around one image, with no href, an empty href or a link
LinkedImgNodes ==
    {Element("a", [NoAttrs EXCEPT !.href = h], <<img>>) :
        h \in {None, Some(""), Some("page.html")}, img \in ImgNodes}

Paragraph == Element("p", NoAttrs, <<TextNode("text")>>)

ImageSoups ==
    {Soup(kids) : kids \in SeqUpTo(ImgNodes \cup LinkedImgNodes \cup {Paragraph}, MaxNodes)}

\* Python truthiness of tag.get(name): None and "" are false
Truthy(attr) == attr # None /\ attr[1] # ""

\* line 28 with the parent never consulted
LinkUrl_SrcOnly(parent, img) == img.attrs.src

\* line 28
LinkUrl(parent, img) ==
    IF Truthy(parent.attrs.href) THEN parent.attrs.href ELSE img.attrs.src

\* line 30
LinkText(img, no_images) ==
    IF no_images THEN ""
    ELSE IF img.attrs.alt = None THEN "[IMG]" ELSE img.attrs.alt[1]

\* lines 29-30: soup.new_tag("a", href=link_url) with its string set
NewLink(parent, img, no_images) ==
    Element("a", [NoAttrs EXCEPT !.href = LinkUrl(parent, img)],
            <<TextNode(LinkText(img, no_images))>>)

\* lines 27-31 below one node: every img found is replaced where it stands
RECURSIVE ReplaceBelow(_, _)
ReplaceBelow(node, no_images) ==
    [node EXCEPT !.kids =
        [i \in DOMAIN node.kids |->
            IF node.kids[i].tag = "img"
            THEN NewLink(node, node.kids[i], no_images)
            ELSE ReplaceBelow(node.kids[i], no_images)]]

\* lines 25-32
replace_images_with_link(soup, no_images) == ReplaceBelow(soup, no_images)

ReplaceImagesCall ==
    /\ mode = "images" /\ fn = "none"
    /\ fn' = "replace_images_with_link"
    /\ fnOut' = Returned(replace_images_with_link(input.soup, input.no_images))
    /\ UNCHANGED <<step, itemPage, mode, log, input, loginVars, pubVars, mainVars>>

InitImages ==
    /\ mode = "images"
    /\ IdleLogin
    /\ IdlePublish
    /\ IdleMain
    /\ log = <<>>
    /\ fn = "none"
    /\ step = "idle"
    /\ itemPage = NoItemPage
    /\ input \in [soup : ImageSoups, no_images : BOOLEAN]
    /\ fnOut = Pending

NextImages == ReplaceImagesCall

SpecImages == InitImages /\ [][NextImages]_vars

------------------------------------------------------------------------------
(* Claims about replace_images_with_link, checked under SpecImages *)

ImagesReplaced == mode = "images" /\ fn = "replace_images_with_link"

RECURSIVE HasImg(_)
HasImg(node) == node.tag = "img" \/ \E i \in DOMAIN node.kids : HasImg(node.kids[i])

\* node is an anchor with this href whose only content is this text
IsLink(node, href, text) ==
    node.tag = "a" /\ node.attrs.href = href /\ node.kids = <<TextNode(text)>>

TextFor(img) ==
    IF input.no_images THEN ""
    ELSE IF img.attrs.alt = None THEN "[IMG]" ELSE img.attrs.alt[1]

\* every image below `before` stands replaced in `after` by a link whose href
\* is the parent's href when HasHref(parent), else the image's src
ReplacedBelow(before, after, HasHref(_)) ==
    /\ after.tag = before.tag /\ after.attrs = before.attrs
    /\ Len(after.kids) = Len(before.kids)
    /\ \A i \in DOMAIN before.kids :
         LET kid == before.kids[i]
         IN IF kid.tag = "img"
            THEN IsLink(after.kids[i],
                        IF HasHref(before) THEN before.attrs.href ELSE kid.attrs.src,
                        TextFor(kid))
            ELSE IF kid.tag = "a"
            THEN /\ after.kids[i].tag = "a" /\ after.kids[i].attrs = kid.attrs
                 /\ Len(after.kids[i].kids) = 1
                 /\ IsLink(after.kids[i].kids[1],
                           IF HasHref(kid) THEN kid.attrs.href ELSE kid.kids[1].attrs.src,
                           TextFor(kid.kids[1]))
            ELSE after.kids[i] = kid

HasHrefAttribute(node) == node.attrs.href # None
HasNonEmptyHref(node) == node.attrs.href # None /\ node.attrs.href # Some("")

\* C18 as stated: every image is replaced by an anchor and none is left; the
\* anchor's href is the parent's href when the parent has one, else the
\* image's src; its text is the alt text, "[IMG]" without an alt attribute,
\* and empty when no_images is true.
C18_ParentHrefWhenPresent ==
    ImagesReplaced =>
        /\ ~HasImg(fnOut.value)
        /\ ReplacedBelow(input.soup, fnOut.value, HasHrefAttribute)

\* C18 amended: the same, the parent's href being used only when it is not
\* empty; under a parent whose href is the empty text the anchor gets the
\* image's src.
C18_ParentHrefWhenNonEmpty ==
    ImagesReplaced =>
        /\ ~HasImg(fnOut.value)
        /\ ReplacedBelow(input.soup, fnOut.value, HasNonEmptyHref)

\* an image inside a link and an image of its own were both replaced
C18_Witness ==
    /\ ImagesReplaced
    /\ ~input.no_images
    /\ Len(input.soup.kids) = 2
    /\ input.soup.kids[1].tag = "a" /\ input.soup.kids[1].attrs.href = Some("page.html")
    /\ input.soup.kids[1].kids[1].attrs.alt = None
    /\ input.soup.kids[2].tag = "img" /\ input.soup.kids[2].attrs.alt = Some("Test Image")
    /\ IsLink(fnOut.value.kids[1].kids[1], Some("page.html"), "[IMG]")
    /\ IsLink(fnOut.value.kids[2], input.soup.kids[2].attrs.src, "Test Image")

------------------------------------------------------------------------------
(* apply_styles_to_table *)

MaxTables == 3
MaxRows == 3

\* line 16: the two colours the cycle yields in turn
Colors == <<"#000000", "#1C1C1E">>

Cell(tag) == Element(tag, NoAttrs, <<TextNode("cell")>>)

\* a table of n rows: a header row of th cells, then rows of td cells
TableOf(n) ==
    Element("table", NoAttrs,
            [r \in 1..n |-> Element("tr", NoAttrs,
                                    IF r = 1 THEN <<Cell("th"), Cell("th")>>
                                    ELSE <<Cell("td"), Cell("td")>>)])

TableSoups ==
    {Soup(kids) : kids \in SeqUpTo({Paragraph} \cup {TableOf(n) : n \in 0..MaxRows}, MaxTables)}

\* lines 18-19
StyleCells(row) ==
    [row EXCEPT !.kids =
        [c \in DOMAIN row.kids |->
            IF row.kids[c].tag = "td"
            THEN [row.kids[c] EXCEPT
                     !.attrs.style = Some("border:1px solid #FFFFFF; padding:0.5em;")]
            ELSE row.kids[c]]]

\* line 21, `taken` colours having been taken from the cycle before
RowStyle(taken) ==
    Some("background-color: " \o Colors[(taken % 2) + 1] \o "; border:1px solid #FFFFFF;")

\* lines 18-21 for one table
StyleTable(table, taken) ==
    [table EXCEPT !.kids =
        [r \in DOMAIN table.kids |->
            [StyleCells(table.kids[r]) EXCEPT !.attrs.style = RowStyle(taken + r - 1)]]]

\* lines 17-21: the tables in document order, one cycle of colours for all
RECURSIVE StyleFrom(_, _)
StyleFrom(kids, taken) ==
    IF kids = <<>> THEN <<>>
    ELSE IF Head(kids).tag = "table"
    THEN <<StyleTable(Head(kids), taken)>>
             \o StyleFrom(Tail(kids), taken + Len(Head(kids).kids))
    ELSE <<Head(kids)>> \o StyleFrom(Tail(kids), taken)

\* lines 14-22
apply_styles_to_table(soup) == [soup EXCEPT !.kids = StyleFrom(soup.kids, 0)]

ApplyStylesCall ==
    /\ mode = "tables" /\ fn = "none"
    /\ fn' = "apply_styles_to_table"
    /\ fnOut' = Returned(apply_styles_to_table(input.soup))
    /\ UNCHANGED <<step, itemPage, mode, log, input, loginVars, pubVars, mainVars>>

InitTables ==
    /\ mode = "tables"
    /\ IdleLogin
    /\ IdlePublish
    /\ IdleMain
    /\ log = <<>>
    /\ fn = "none"
    /\ step = "idle"
    /\ itemPage = NoItemPage
    /\ input \in [soup : TableSoups]
    /\ fnOut = Pending

NextTables == ApplyStylesCall

SpecTables == InitTables /\ [][NextTables]_vars

------------------------------------------------------------------------------
(* Claims about apply_styles_to_table, checked under SpecTables *)

TablesStyled == mode = "tables" /\ fn = "apply_styles_to_table"

BackgroundOf(row) ==
    IF row.attrs.style = Some("background-color: #000000; border:1px solid #FFFFFF;")
    THEN "#000000"
    ELSE IF row.attrs.style = Some("background-color: #1C1C1E; border:1px solid #FFFFFF;")
    THEN "#1C1C1E"
    ELSE "other"

StyledTables == {i \in DOMAIN fnOut.value.kids : fnOut.value.kids[i].tag = "table"}

\* C19: in every table of the styled document the first row is #000000 and
\* the rows alternate between #000000 and #1C1C1E from there, whatever the
\* number of tables and of rows.
C19_EachTableStartsWithFirstColor ==
    TablesStyled =>
        \A t \in StyledTables :
            \A r \in DOMAIN fnOut.value.kids[t].kids :
                BackgroundOf(fnOut.value.kids[t].kids[r]) =
                    IF r % 2 = 1 THEN "#000000" ELSE "#1C1C1E"

\* what the code does keep: inside a table neighbouring rows differ and only
\* the two colours occur
C19_NeighbouringRowsDiffer ==
    TablesStyled =>
        \A t \in StyledTables :
            LET rows == fnOut.value.kids[t].kids
            IN /\ \A r \in DOMAIN rows : BackgroundOf(rows[r]) \in {"#000000", "#1C1C1E"}
               /\ \A r \in 1..(Len(rows) - 1) :
                     BackgroundOf(rows[r]) # BackgroundOf(rows[r + 1])

------------------------------------------------------------------------------
(* readme_html and get_readme.  A markdown text is a list of blocks: a     *)
(* paragraph, an image ![alt](target), optionally inside a link, or a      *)
(* table of n rows.                                                        *)

MaxArchives == 3

MdParagraph == [md |-> "para", alt |-> "", target |-> <<>>, link |-> None, rows |-> 0]
MdImage(alt, target, link) ==
    [md |-> "image", alt |-> alt, target |-> target, link |-> link, rows |-> 0]
MdTable(n) == [md |-> "table", alt |-> "", target |-> <<>>, link |-> None, rows |-> n]

\* the text of a list of pieces
RECURSIVE Concat(_)
Concat(pieces) == IF pieces = <<>> THEN "" ELSE Head(pieces) \o Concat(Tail(pieces))

\* line 37: an image with empty alt text whose target starts with "." is cut out
IsLocalImage(block) ==
    block.md = "image" /\ block.alt = "" /\ block.target # <<>> /\ block.target[1] = "."

\* lines 37-39: the HTML python-markdown makes of one block
BlockHtml(block) ==
    CASE block.md = "para" -> Paragraph
      [] block.md = "table" -> TableOf(block.rows)
      [] OTHER ->
           LET img == Element("img", [NoAttrs EXCEPT !.alt = Some(block.alt),
                                                     !.src = Some(Concat(block.target))], <<>>)
               content == IF IsLocalImage(block) THEN <<>> ELSE <<img>>
           IN IF block.link = None
              THEN Element("p", NoAttrs, content)
              ELSE Element("p", NoAttrs,
                           <<Element("a", [NoAttrs EXCEPT !.href = block.link], content)>>)

\* line 37: a local image that stands alone leaves nothing behind
RemoveLocalImages(blocks) ==
    SelectSeq(blocks, LAMBDA b : ~(IsLocalImage(b) /\ b.link = None))

\* lines 37-40: BeautifulSoup(html, "html.parser") of the converted text
ParseMarkdown(markdown_text) ==
    LET blocks == RemoveLocalImages(markdown_text)
    IN Soup([i \in DOMAIN blocks |-> BlockHtml(blocks[i])])

AttrText(name, attr) == IF attr = None THEN <<>> ELSE <<" " \o name \o "=\"" \o attr[1] \o "\"">>

\* line 42: str(soup)
RECURSIVE Render(_)
RECURSIVE RenderAll(_)
RenderAll(nodes) == IF nodes = <<>> THEN <<>> ELSE Render(Head(nodes)) \o RenderAll(Tail(nodes))
Render(node) ==
    IF node.tag = "#text" THEN <<node.string>>
    ELSE IF node.tag = "[document]" THEN RenderAll(node.kids)
    ELSE <<"<" \o node.tag>>
             \o AttrText("alt", node.attrs.alt) \o AttrText("href", node.attrs.href)
             \o AttrText("src", node.attrs.src) \o AttrText("style", node.attrs.style)
             \o <<">">> \o RenderAll(node.kids) \o <<"</" \o node.tag \o ">">>

\* lines 35-43
readme_html(markdown_text, no_images) ==
    Render(apply_styles_to_table(
               replace_images_with_link(ParseMarkdown(markdown_text), no_images)))

Md1 == <<MdImage("Logo", <<"https://x.org/", "logo.png">>, None), MdTable(2)>>
Md2 == <<MdImage("", <<".", "/shot.png">>, None),
         MdImage("Badge", <<"https://x.org/", "badge.svg">>, Some("https://x.org/ci")),
         MdParagraph>>

\* the archives: entry name -> content
Archives ==
    {("extension.xml" :> <<>>),
     ("README.md" :> Md1 @@ "extension.xml" :> <<>>),
     ("README.md" :> Md2),
     ("docs/README.md" :> Md1),
     ("NOTES.md" :> Md2 @@ "README.md" :> Md1)}

ReadmeNames == {"README.md", "NOTES.md"}

RECURSIVE Reverse(_)
Reverse(s) == IF s = <<>> THEN <<>> ELSE Append(Reverse(Tail(s)), Head(s))

\* lines 48-55: the loop over the archives
RECURSIVE GetReadmeFrom(_, _, _)
GetReadmeFrom(files, no_images, readme_name) ==
    IF files = <<>> THEN Raised(FileNotFoundError(<<"No README file found.">>))
    ELSE IF readme_name \in DOMAIN Head(files)
    THEN Returned(readme_html(Head(files)[readme_name], no_images))
    ELSE GetReadmeFrom(Tail(files), no_images, readme_name)

\* get_readme searching the archives from the last to the first
get_readme_LastFirst(files, no_images, readme_name) ==
    GetReadmeFrom(Reverse(files), no_images, readme_name)

\* lines 46-55
get_readme(files, no_images, readme_name) == GetReadmeFrom(files, no_images, readme_name)

GetReadmeCall ==
    /\ mode = "readme" /\ fn = "none"
    /\ fn' = "get_readme"
    /\ fnOut' = get_readme(input.new_files, input.no_images, input.readme_name)
    /\ UNCHANGED <<step, itemPage, mode, log, input, loginVars, pubVars, mainVars>>

InitReadme ==
    /\ mode = "readme"
    /\ IdleLogin
    /\ IdlePublish
    /\ IdleMain
    /\ log = <<>>
    /\ fn = "none"
    /\ step = "idle"
    /\ itemPage = NoItemPage
    /\ input \in [new_files : SeqUpTo(Archives, MaxArchives), no_images : BOOLEAN,
                  readme_name : ReadmeNames]
    /\ fnOut = Pending

NextReadme == GetReadmeCall

SpecReadme == InitReadme /\ [][NextReadme]_vars

------------------------------------------------------------------------------
(* Claims about get_readme, checked under SpecReadme *)

ReadmeCalled == mode = "readme" /\ fn = "get_readme"

\* the archives of the list that contain the named file
Holders == {i \in DOMAIN input.new_files : input.readme_name \in DOMAIN input.new_files[i]}

\* C17: get_readme renders the named file of the first archive of the list
\* that contains it, whatever later archives contain and however many earlier
\* ones lack it, and raises FileNotFoundError exactly when no archive of the
\* list contains it, the empty list included.
C17_FirstArchiveWithReadme ==
    ReadmeCalled =>
        IF Holders = {}
        THEN fnOut = Raised(FileNotFoundError(<<"No README file found.">>))
        ELSE LET first == CHOOSE i \in Holders : \A j \in Holders : i <= j
             IN fnOut = Returned(readme_html(input.new_files[first][input.readme_name],
                                             input.no_images))

\* an archive without the file was skipped, and of two archives holding
\* different README.md files the earlier one was rendered
C17_Witness ==
    /\ ReadmeCalled
    /\ input.readme_name = "README.md"
    /\ input.new_files = <<("extension.xml" :> <<>>), ("README.md" :> Md2),
                           ("README.md" :> Md1 @@ "extension.xml" :> <<>>)>>
    /\ fnOut = Returned(readme_html(Md2, input.no_images))
    /\ fnOut # Returned(readme_html(Md1, input.no_images))

\* the empty list raised the not-found error
C17_WitnessEmpty ==
    /\ ReadmeCalled
    /\ input.new_files = <<>>
    /\ fnOut.kind = "raise" /\ fnOut.exc.type = "FileNotFoundError"

------------------------------------------------------------------------------
(* Claims about the channel assignment and the builds listing, checked     *)
(* under SpecPublish                                                       *)

PublishDone == mode = "publish" /\ ppc = "done"

\* C27: when upload_and_publish returns normally with a channel other than
\* NONE, the channel-assignment request was answered with status 200; an
\* assignment answered otherwise never ends in a normal return.
C27_NormalReturnMeansAssigned ==
    (PublishDone /\ channel # "NONE" /\ pubResult = Returned(None)) =>
        /\ Issued("assign") # {}
        /\ \A i \in Issued("assign") : responses[i].status = HTTP_OK

\* the builds listing was answered with an empty list
EmptyListing ==
    /\ builds = <<>>
    /\ \E l \in Issued("list") : responses[l] = Response(HTTP_OK, <<"data">>)

\* C28: when the listing requested after a successful upload is empty and
\* the channel is not NONE, upload_and_publish raises an error, no
\* channel-assignment request is issued, and nothing is sent after the
\* listing that would undo the upload.
C28_EmptyListingRaises ==
    (mode = "publish" /\ channel # "NONE" /\ EmptyListing) =>
        /\ ppc = "done"
        /\ pubResult.kind = "raise"
        /\ Issued("assign") = {}
        /\ UploadReturned
        /\ Len(requests) = 2 /\ requests[1].op = "upload" /\ requests[2].op = "list"

C28_Witness ==
    /\ mode = "publish" /\ channel = "LIVE" /\ EmptyListing
    /\ pubResult = Raised(OtherError("ValueError"))
    /\ responses[1] = Response(HTTP_OK, <<>>)

------------------------------------------------------------------------------
(* ForgeItem.get_sales, called by a user of ForgeItem once                 *)
(* upload_and_publish has ended                                            *)

MaxSales == 2

API_SALES == "https://forge.fantasygrounds.com/api/transactions/data-table"

\* ForgeTransactionType.PURCHASE.value
PURCHASE == "2"

\* the transactions the marketplace may list
Sales == [item_id : {ItemId, "4242"}, transaction_type_id : {PURCHASE, "5"}]
SalesLists == SeqUpTo(Sales, MaxSales)

\* lines 199-202: a new mapping, the caller's entries with Content-Type set
SalesHeaders(h) ==
    ("Content-Type" :> <<"application/x-www-form-urlencoded">>)
    @@ [k \in DOMAIN h \ {"Content-Type"} |-> h[k]]

\* lines 206-207
is_sale_type(sale, sale_type) ==
    sale.item_id = ItemId /\ sale.transaction_type_id = sale_type

\* lines 197-212, limit_count left at its default -1; the request body stands
\* in the last field of the request
PubGetSales ==
    /\ mode = "publish" /\ ppc = "done" /\ fn = "none"
    /\ fn' = "get_sales"
    /\ requests' = Append(requests,
           Request("sales", <<API_SALES>>, SalesHeaders(headers), <<"draw=1&length=", "-1">>))
    /\ \/ /\ responses' = Append(responses, NoResponse)
          /\ fnOut' = Raised(OtherError("ConnectionError"))
          /\ log' = log
       \/ /\ responses' = Append(responses, Response(HTTP_OK, <<"<html>">>))
          /\ fnOut' = Raised(OtherError("JSONDecodeError"))
          /\ log' = log
       \/ \E data \in SalesLists :
            LET sales == SelectSeq(data, LAMBDA sale : is_sale_type(sale, PURCHASE))
            IN /\ responses' = Append(responses, Response(HTTP_OK, <<"data">>))
               /\ fnOut' = Returned(sales)
               /\ log' = Append(log, <<"Found ", ToString(Len(sales)),
                                       " transactions with transaction type ",
                                       "ForgeTransactionType.PURCHASE",
                                       " for Forge item ", ItemId>>)
    /\ UNCHANGED <<step, itemPage, mode, input, loginVars, mainVars, ppc, headers, new_files, channel,
                   builds, pubResult>>

NextHeaders == NextPublish \/ PubGetSales

SpecHeaders == InitPublish /\ [][NextHeaders]_vars

------------------------------------------------------------------------------
(* Claims about the header mapping, checked under SpecHeaders *)

SameOriginNames == {"X-Requested-With", "Origin", "Referer"}

\* C30: the mapping login returned is left as it was by upload_build_direct,
\* get_item_builds, set_build_channel and get_sales.  The upload sends a copy
\* without Content-Type and with X-Requested-With, Origin and Referer; the
\* list-builds and assign-channel requests carry the caller's mapping, in
\* which those three entries never appear and a Content-Type entry is kept.
C30_CallerHeadersUntouched ==
    mode = "publish" =>
        /\ headers \in HeaderSets
        /\ \A i \in Issued("upload") :
             /\ DOMAIN requests[i].headers =
                    (DOMAIN headers \ {"Content-Type"}) \cup SameOriginNames
             /\ \A k \in DOMAIN headers \ {"Content-Type"} :
                    requests[i].headers[k] = headers[k]
             /\ requests[i].headers["X-Requested-With"] = <<"XMLHttpRequest">>
             /\ requests[i].headers["Origin"] = <<"https://forge.fantasygrounds.com">>
             /\ requests[i].headers["Referer"] =
                    <<"https://forge.fantasygrounds.com/crafter/manage-craft">>
        /\ \A i \in Issued("list") \cup Issued("assign") :
             /\ requests[i].headers = headers
             /\ DOMAIN requests[i].headers \cap SameOriginNames = {}
        /\ \A i \in Issued("sales") :
             /\ DOMAIN requests[i].headers = DOMAIN headers \cup {"Content-Type"}
             /\ \A k \in DOMAIN headers \ {"Content-Type"} :
                    requests[i].headers[k] = headers[k]

\* a mapping with a Content-Type entry went through upload, listing,
\* assignment and get_sales
C30_Witness ==
    /\ mode = "publish" /\ fn = "get_sales"
    /\ "Content-Type" \in DOMAIN headers
    /\ Issued("upload") = {1} /\ Issued("list") = {2} /\ Issued("assign") = {3}
    /\ Issued("sales") = {4}
    /\ "Content-Type" \notin DOMAIN requests[1].headers
    /\ requests[2].headers["Content-Type"] = <<"application/json">>
    /\ requests[4].headers["Content-Type"] = <<"application/x-www-form-urlencoded">>

------------------------------------------------------------------------------
(* Claims about the page of get_csrf_token, checked under SpecLogin *)

\* a call of get_csrf_token is under way
CsrfRunning == pc \in {"csrf_goto", "csrf_content"}

\* C24: every call of get_csrf_token opens one page and closes it once on
\* every exit path: once a call has ended, by returning or by raising
\* (no response, failure status, missing token element, or an exception of
\* the navigation or of the content read), every page opened is closed.
C24_CsrfPageClosedOnEveryExit ==
    mode = "login" =>
        /\ pagesClosed <= pagesOpened
        /\ CsrfRunning => pagesOpened - pagesClosed <= 1
        /\ (~CsrfRunning /\ csrfRet # Pending) => pagesClosed = pagesOpened

\* the same for the exits the code does handle: the call returned or raised
\* ForgeLoginException
C24_ClosedUnlessPageRaised ==
    (mode = "login" /\ ~CsrfRunning /\ csrfRet # Pending
       /\ ~Did("csrf", "goto", "timeout") /\ ~Did("csrf", "goto", "error")
       /\ ~Did("csrf", "content", "error")) =>
        pagesClosed = pagesOpened

------------------------------------------------------------------------------
(* Claims about what login logs, checked under SpecLogin *)

\* the text holds the piece p
Mentions(text, p) == \E i \in DOMAIN text : text[i] = p

\* the messages of the errors raised so far by login and get_csrf_token
RaisedMessages ==
    (IF result.kind = "raise" THEN {result.exc.msg} ELSE {})
    \cup (IF csrfRet.kind = "raise" THEN {csrfRet.exc.msg} ELSE {})

\* C23: credentials are never logged.  login handles the password as an
\* opaque value, so two runs that differ only in the password emit the same
\* log lines and error messages exactly when no log line and no error message
\* holds a password; the username does appear.
C23_PasswordNeverLogged ==
    mode = "login" =>
        \A p \in Passwords :
            /\ \A i \in DOMAIN log : ~Mentions(log[i], p)
            /\ \A msg \in RaisedMessages : ~Mentions(msg, p)

\* the password was typed, login logged the line naming the user, and then
\* ended with an error of get_csrf_token
C23_Witness ==
    /\ LoginDone
    /\ \E i \in DOMAIN ev : ev[i] = Typed("password", "ok", creds.password)
    /\ \E i \in DOMAIN log : Mentions(log[i], creds.username)
    /\ result.kind = "raise"

\* the password was typed and login raised ForgeLoginException naming the user
C23_WitnessRejected ==
    /\ LoginDone
    /\ \E i \in DOMAIN ev : ev[i] = Typed("password", "ok", creds.password)
    /\ result.kind = "raise" /\ Mentions(result.exc.msg, creds.username)

------------------------------------------------------------------------------
(* Claims about the two copies of resolve_file_paths, checked under        *)
(* SpecResolve                                                             *)

\* what the other copy makes of the input of the call
OtherCopyOutcome ==
    resolve_file_paths(IF fn = "main.resolve_file_paths" THEN "file_handling" ELSE "main",
                       input.path_string, input.listing).out

\* C26: the resolve_file_paths of main.py and the one of file_handling.py
\* are equivalent: on every input and file tree they return the same list in
\* the same order or raise the same error type with the same message.
C26_CopiesEquivalent == Resolved => fnOut = OtherCopyOutcome

\* the copies do agree whenever the outcome is not the invalid-path error
C26_EquivalentButInvalidPath ==
    Resolved =>
        \/ fnOut = OtherCopyOutcome
        \/ \E i \in DOMAIN InputSegments :
              FirstOffending(i) /\ FsKind(Target(InputSegments[i])) \in {"socket", "fifo"}

------------------------------------------------------------------------------
(* Claims about the session and about failures after the upload, checked   *)
(* under Spec                                                              *)

\* every call of ForgeItem.login, by main or by update_description
LoginCalls == {i \in DOMAIN calls : calls[i].op = "login"}

\* C22: a run of main that reaches the login performs it exactly once,
\* whichever of upload and description update are enabled, and the headers
\* it returned are the ones upload_and_publish is given.
C22_ExactlyOneLogin ==
    (MainExited /\ Called("login") # {}) =>
        /\ Cardinality(LoginCalls) = 1
        /\ Called("upload_and_publish") # {} => headers = result.value

\* main itself calls login once, and passes its headers on
C22_MainCallsLoginOnce ==
    (MainExited /\ Called("login") # {}) =>
        /\ Cardinality(Called("login")) = 1
        /\ Called("upload_and_publish") # {} => headers = result.value

UploadSucceeded == \E i \in Called("upload_and_publish") : calls[i].out = "return"

\* the README extraction or the description update raised
LaterStepFailed ==
    \E i \in DOMAIN calls :
        /\ calls[i].by = "main" /\ calls[i].out = "raise"
        /\ calls[i].op \in {"get_readme", "get_readme(no_images)", "update_description"}

\* after the step that failed, main only closes the context and the browser
OnlyClosesAfterFailure ==
    \A i \in DOMAIN calls :
        (calls[i].by = "main" /\ calls[i].out = "raise"
           /\ calls[i].op \in {"get_readme", "get_readme(no_images)", "update_description"}) =>
            \A j \in (i + 1)..Len(calls) : calls[j].op \in {"context.close", "browser.close"}

\* C21: there is no rollback.  When the README extraction or the description
\* update fails after upload_and_publish returned, the run ends with that
\* error, the browser is released, and main calls nothing afterwards that
\* could undo or alter the upload.
C21_NoRollback ==
    (MainExited /\ UploadSucceeded /\ LaterStepFailed) =>
        /\ pendingExc # None
        /\ mainResult.kind = "raise"
        /\ browserClosed = 1
        /\ Cardinality(Called("upload_and_publish")) = 1
        /\ OnlyClosesAfterFailure

\* the part that holds: nothing but the closes follows the failure, the run
\* ends with an error, and the browser is released unless context.close raised
C21_NoRollbackUnlessCloseRaises ==
    (MainExited /\ UploadSucceeded /\ LaterStepFailed) =>
        /\ pendingExc # None
        /\ mainResult.kind = "raise"
        /\ (\A i \in Called("context.close") : calls[i].out = "return") => browserClosed = 1
        /\ Cardinality(Called("upload_and_publish")) = 1
        /\ OnlyClosesAfterFailure

------------------------------------------------------------------------------
(* ForgeItem.update_description and ForgeItem.replace_description, step by *)
(* step; the browser operations are recorded in ev                         *)

ItemsTableSelector == "select[name='items-table_length']"
ItemLinkSelector == "//a[@data-item-id='" \o ItemId \o "']"
TabSelector == "//a[@id='manage-item-tab']"
SaveSelector == "#save-item-button"

\* lines 228, 233 and 257: the message raised when a wait returned nothing;
\* the one of the item link is no f-string and keeps its braces
NotFoundMsg(selector) ==
    IF selector = ItemLinkSelector
    THEN "//a[@data-item-id='{self.item_id}'] not found"
    ELSE selector \o " not found"

Descriptions == {<<"<p>", "new text", "</p>">>, <<>>, <<"<p>", "old text", "</p>">>}

OldItemPage == [editor |-> <<"<p>", "old text", "</p>">>, saved |-> <<"<p>", "old text", "</p>">>]

\* the call ends by raising or returning
DescEnds(outcome) == fnOut' = outcome /\ step' = "done"

\* what no action of the description update touches
DescFrame ==
    UNCHANGED <<mode, input, fn, pubVars, mainVars, pc, creds, site, cookies, csrfPage,
                csrfRet, pagesOpened, pagesClosed, result>>

WaitProceeds_NoneIgnored(found, checked) == found # "timeout"

\* `if not element: raise ...` after a wait: the caller goes on with the
\* element, or with nothing when it does not look at what the wait returned
WaitProceeds(found, checked) == found = "found" \/ (found = "none" /\ ~checked)

\* a wait whose result is tested with `if not ...` (checked) or dropped: the
\* element is found, the wait returns None, or the wait raises its timeout
DescWait(at, selector, checked, next) ==
    /\ mode = "describe" /\ step = at
    /\ \E found \in {"found", "none", "timeout"} :
         /\ ev' = Append(ev, E("wait", selector, found))
         /\ IF WaitProceeds(found, checked) THEN step' = next /\ fnOut' = fnOut
            ELSE IF found = "timeout" THEN DescEnds(Raised(Timeout))
            ELSE DescEnds(Raised(PlaywrightTimeoutError(NotFoundMsg(selector))))
    /\ UNCHANGED <<log, itemPage>>
    /\ DescFrame

\* a click or navigation that succeeds or raises its timeout
DescDo(at, op, arg, next) ==
    /\ mode = "describe" /\ step = at
    /\ \E done \in {"ok", "timeout"} :
         /\ ev' = Append(ev, E(op, arg, done))
         /\ IF done = "ok" THEN step' = next /\ fnOut' = fnOut
            ELSE DescEnds(Raised(Timeout))
    /\ UNCHANGED <<log, itemPage>>
    /\ DescFrame

\* lines 251-252: update_description logs in again
DescLogin ==
    /\ mode = "describe" /\ step = "login"
    /\ \E o \in LoginOutcomes :
         /\ ev' = Append(ev, E("login", "update_description", o.kind))
         /\ IF o.kind = "raise"
            THEN DescEnds(o) /\ log' = log
            ELSE /\ step' = "goto" /\ fnOut' = fnOut
                 /\ log' = Append(log, <<"Updating Forge item description">>)
    /\ UNCHANGED itemPage
    /\ DescFrame

\* line 254
DescGoto == DescDo("goto", "goto", "manage_craft", "wait_items")

\* line 255: the result of this wait is not looked at
DescWaitItemsTable == DescWait("wait_items", ItemsTableSelector, FALSE, "wait_link")

\* lines 256-259
DescWaitItemLink == DescWait("wait_link", ItemLinkSelector, TRUE, "click_link")

\* line 260
DescClickItemLink == DescDo("click_link", "click", ItemLinkSelector, "wait_tab")

\* lines 226-230 (the scroll of line 226 has no effect on the item)
ReplWaitTab == DescWait("wait_tab", TabSelector, TRUE, "click_tab")

\* line 231
ReplClickTab == DescDo("click_tab", "click", TabSelector, "wait_save")

\* lines 233-236
ReplWaitSave == DescWait("wait_save", SaveSelector, TRUE, "clear")

\* a step on the editor: it succeeds with its effect on the page and its log
\* line, or raises and leaves the page as it is
ReplEdit(at, op, next, page, lines) ==
    /\ mode = "describe" /\ step = at
    /\ \/ /\ ev' = Append(ev, E(op, "editor", "ok"))
          /\ itemPage' = page
          /\ log' = log \o lines
          /\ IF next = "done" THEN DescEnds(Returned(None))
             ELSE step' = next /\ fnOut' = fnOut
       \/ /\ ev' = Append(ev, E(op, "editor", "timeout"))
          /\ DescEnds(Raised(Timeout))
          /\ UNCHANGED <<itemPage, log>>
    /\ DescFrame

\* lines 238-240: el.innerHTML = ''
ReplClear ==
    ReplEdit("clear", "clear", "inject", [itemPage EXCEPT !.editor = <<>>],
             << <<"Forge item description cleared">> >>)

\* lines 242-243: field.innerHTML = text
ReplInject ==
    ReplEdit("inject", "inject", "click_save",
             [itemPage EXCEPT !.editor = input.description], <<>>)

\* lines 245-247: the save control stores what the editor holds
ReplClickSave ==
    ReplEdit("click_save", "save", "done", [itemPage EXCEPT !.saved = itemPage.editor],
             << <<"Forge item description uploaded">> >>)

InitDescribe ==
    /\ mode = "describe"
    /\ IdleLogin
    /\ IdlePublish
    /\ IdleMain
    /\ log = <<>>
    /\ fn = "update_description"
    /\ step = "login"
    /\ itemPage = OldItemPage
    /\ input \in [description : Descriptions]
    /\ fnOut = Pending

NextDescribe ==
    \/ DescLogin
    \/ DescGoto
    \/ DescWaitItemsTable
    \/ DescWaitItemLink
    \/ DescClickItemLink
    \/ ReplWaitTab
    \/ ReplClickTab
    \/ ReplWaitSave
    \/ ReplClear
    \/ ReplInject
    \/ ReplClickSave

SpecDescribe == InitDescribe /\ [][NextDescribe]_vars

------------------------------------------------------------------------------
(* replace_description: what happens to the editor, and in which order *)

\* the positions in ev of the attempts of one editor step
Attempts(op) == {i \in DOMAIN ev : ev[i].op = op /\ ev[i].arg = "editor"}

\* the positions in ev where one wait ended in one way
WaitEnded(selector, found) ==
    {i \in DOMAIN ev : ev[i].op = "wait" /\ ev[i].arg = selector /\ ev[i].out = found}

\* one of the two waits of replace_description ended without its element
EitherWaitFailed ==
    \E selector \in {TabSelector, SaveSelector} :
        WaitEnded(selector, "none") \cup WaitEnded(selector, "timeout") # {}

\* every attempt of `later` comes after a success of `earlier`
OnlyAfter(earlier, later) ==
    \A j \in Attempts(later) : \E i \in Attempts(earlier) : i < j /\ ev[i].out = "ok"

\* C29: replace_description clears the editor only after both the
\* manage-item tab and the save control were found; clearing, injecting the
\* new HTML and clicking save happen in that order, each at most once and
\* each exactly once when the call returns, after which the item holds the
\* new description; if either wait fails nothing touches the editor and the
\* description of the item is what it was.
C29_ClearInjectSaveInOrder ==
    mode = "describe" =>
        /\ \A j \in Attempts("clear") :
               /\ \E i \in WaitEnded(TabSelector, "found") : i < j
               /\ \E i \in WaitEnded(SaveSelector, "found") : i < j
        /\ OnlyAfter("clear", "inject")
        /\ OnlyAfter("inject", "save")
        /\ \A op \in {"clear", "inject", "save"} : Cardinality(Attempts(op)) <= 1
        /\ (step = "done" /\ fnOut.kind = "return") =>
               /\ \A op \in {"clear", "inject", "save"} : Cardinality(Attempts(op)) = 1
               /\ itemPage = [editor |-> input.description, saved |-> input.description]
        /\ EitherWaitFailed =>
               /\ \A op \in {"clear", "inject", "save"} : Attempts(op) = {}
               /\ itemPage = OldItemPage
               /\ step = "done" /\ fnOut.kind = "raise"

\* a description other than the old one was cleared, injected and saved
C29_Witness ==
    /\ mode = "describe" /\ step = "done" /\ fnOut.kind = "return"
    /\ Did("clear", "editor", "ok") /\ Did("inject", "editor", "ok") /\ Did("save", "editor", "ok")
    /\ itemPage.saved = input.description /\ itemPage # OldItemPage

\* the save control was not found after the tab was: nothing was cleared
C29_WitnessSaveMissing ==
    /\ mode = "describe" /\ step = "done"
    /\ Did("wait", TabSelector, "found") /\ Did("wait", SaveSelector, "none")
    /\ fnOut = Raised(PlaywrightTimeoutError("#save-item-button not found"))
    /\ itemPage = OldItemPage

------------------------------------------------------------------------------
(* what the error of a failed wait says about the element waited on *)

\* the elements that login and the description update cannot go on without
RequiredInLogin == {"username", "password", "login_button"}
RequiredInUpdate == {ItemLinkSelector, TabSelector, SaveSelector}

\* the elements a message names; the message of the item link holds the
\* text {self.item_id} where the item id should be
NamedBy(text) ==
    CASE text = NoFieldMsg -> RequiredInLogin
      [] text = NotFoundMsg(TabSelector) -> {TabSelector}
      [] text = NotFoundMsg(SaveSelector) -> {SaveSelector}
      [] OTHER -> {}

\* a wait for this element ended without it
EndedWithout(el) == Did("wait", el, "timeout") \/ Did("wait", el, "none")

\* the call in progress, login or update_description, has ended and how
CallEnded == (mode = "login" /\ pc = "done") \/ (mode = "describe" /\ step = "done")
CallOutcome == IF mode = "login" THEN result ELSE fnOut

\* C25: when a wait for a required element ended without the element, the
\* call fails with a timeout error whose message names that element and no
\* other.
C25_FailedWaitNamesElement ==
    \A el \in RequiredInLogin \cup RequiredInUpdate :
        (CallEnded /\ EndedWithout(el)) =>
            /\ CallOutcome.kind = "raise"
            /\ CallOutcome.exc.type = "PlaywrightTimeoutError"
            /\ \E i \in DOMAIN CallOutcome.exc.msg : NamedBy(CallOutcome.exc.msg[i]) = {el}

\* What the code does give: a wait of replace_description that returned
\* nothing fails with a message holding the selector waited on.
C25_NothingReturnedNamesSelector ==
    \A el \in {TabSelector, SaveSelector} :
        (mode = "describe" /\ Did("wait", el, "none")) =>
            fnOut = Raised(PlaywrightTimeoutError(el \o " not found"))

C25_WitnessNothingReturned ==
    mode = "describe" /\ Did("wait", TabSelector, "none") /\ fnOut.kind = "raise"

====
